---- MODULE Spec2Model ----
(***************************************************************************)
(* The Robot Control Core of the TeleTable backend: the in-memory store   *)
(* (telemetry, telemetry timestamp, manual lock, route queue, active      *)
(* route), the command bus, the queue dispatcher process_queue and the    *)
(* HTTP / WebSocket handlers that act on them.                            *)
(*                                                                         *)
(* Time is the reading of chrono::Utc::now() in whole seconds.  A handler  *)
(* is one action; it reads the clock once.                                 *)
(*                                                                         *)
(* A handler runs as one step, except in the specification of the        *)
(* interleavings, where tasks holds the requests that are between two of  *)
(* their critical sections.                                               *)
(*                                                                         *)
(* pre, last and emitted are history variables: a handler leaves in them   *)
(* the store it found, its caller, input and response, and its calls of    *)
(* command_sender.send.  Forget clears them before the next operation, so  *)
(* they never influence the store.                                         *)
(***************************************************************************)
EXTENDS Integers, Sequences, FiniteSets, TLC

VARIABLES
    now,                \* the wall clock, seconds
    current_state,      \* SharedRobotState.current_state: Option<RobotState>
    last_state_update,  \* SharedRobotState.last_state_update: Option<DateTime>
    manual_lock,        \* SharedRobotState.manual_lock: Option<LockInfo>
    queue,              \* SharedRobotState.queue: VecDeque<QueuedRoute>
    active_route,       \* SharedRobotState.active_route: Option<QueuedRoute>
    receivers,          \* number of live receivers of command_sender
    next_id,            \* the next fresh Uuid::new_v4() of a route
    robot_url,          \* SharedRobotState.robot_url: Option<String>
    cached_nodes,       \* SharedRobotState.cached_nodes: Option<Vec<String>>
    guards,             \* the RwLock of each slot: guards held, requests waiting
    tasks,              \* the requests in flight, each at a point of its handler
    emitted,            \* history: the command_sender.send calls of the operation
    last,               \* history: the operation, its caller, input and response
    pre                 \* history: the store the operation found

vars == <<now, current_state, last_state_update, manual_lock, queue,
          active_route, receivers, next_id, robot_url, cached_nodes, guards,
          tasks, emitted, last, pre>>

(***************************************************************************)
(* Bounds of the model.                                                    *)
(***************************************************************************)
MaxNow == 30
MaxRoutes == 2
MaxReceivers == 1
MaxFixtureQueue == 2
TickSteps == {15}

(***************************************************************************)
(* Program constants.                                                      *)
(***************************************************************************)
ROBOT_STALE_TIMEOUT_SECS == 30
LOCK_TTL_SECS == 30

(***************************************************************************)
(* Option<T>: None is the empty sequence, Some(x) the one-element one.     *)
(***************************************************************************)
None == <<>>
Some(x) == <<x>>
IsSome(o) == o # <<>>
Unwrap(o) == o[1]

(***************************************************************************)
(* Roles and claims.  A token is minted by login from the user's row, so   *)
(* its sub is the canonical text of the user's Uuid.                       *)
(***************************************************************************)
ADMIN == "Admin"
OPERATOR == "Operator"
VIEWER == "Viewer"

is_admin(role) == role = ADMIN
is_operator(role) == role = OPERATOR
can_operate(role) == role = ADMIN \/ role = OPERATOR

\* Uuid values are 1..4; UuidText is Uuid::to_string.
UuidText == <<"uuid-ada", "uuid-oli", "uuid-pat", "uuid-vic">>
UuidToString(id) == UuidText[id]
\* Uuid::parse_str: Some(id) for the text of a Uuid, None (Err) otherwise.
UuidParseStr(s) ==
    IF \E i \in DOMAIN UuidText : UuidText[i] = s
    THEN Some(CHOOSE i \in DOMAIN UuidText : UuidText[i] = s)
    ELSE None

Ada == [sub |-> "uuid-ada", name |-> "Ada", role |-> ADMIN]
Oli == [sub |-> "uuid-oli", name |-> "Oli", role |-> OPERATOR]
Pat == [sub |-> "uuid-pat", name |-> "Pat", role |-> OPERATOR]
Vic == [sub |-> "uuid-vic", name |-> "Vic", role |-> VIEWER]
Users == {Ada, Oli, Pat, Vic}
\* Pat, the second operator, only takes part in the lock operations.
RouteCallers == {Ada, Oli, Vic}

(***************************************************************************)
(* Robot commands (the tag is the wire discriminator).                     *)
(***************************************************************************)
Navigate(start, destination) ==
    [command |-> "NAVIGATE", start |-> start, destination |-> destination]
Cancel == [command |-> "CANCEL", start |-> "", destination |-> ""]
OtherCommand(tag) == [command |-> tag, start |-> "", destination |-> ""]

RouteInputs == {<<"A", "B">>, <<"C", "D">>}
FrameInputs ==
    {Navigate(p[1], p[2]) : p \in RouteInputs}
    \cup {Cancel}
    \cup {OtherCommand(t) : t \in {"DRIVE_COMMAND", "LED", "AUDIO_BEEP", "AUDIO_VOLUME"}}
    \cup {OtherCommand("MALFORMED")}

DriveModes == {"IDLE", "NAVIGATING"}

QueuedRoute(id, start, destination, added_at, added_by) ==
    [id |-> id, start |-> start, destination |-> destination,
     added_at |-> added_at, added_by |-> added_by]

LockInfo(holder_id, holder_name, expires_at) ==
    [holder_id |-> holder_id, holder_name |-> holder_name, expires_at |-> expires_at]

(***************************************************************************)
(* The store as one value, for the handlers that call process_queue.       *)
(***************************************************************************)
Store ==
    [current_state |-> current_state, last_state_update |-> last_state_update,
     manual_lock |-> manual_lock, queue |-> queue, active_route |-> active_route]

SetStore(s) ==
    /\ current_state' = s.current_state
    /\ last_state_update' = s.last_state_update
    /\ manual_lock' = s.manual_lock
    /\ queue' = s.queue
    /\ active_route' = s.active_route

\* broadcast::Sender::send: Err exactly when there is no live receiver.
\* mutant: a send without receivers is a success, the command is dropped
SendOkDropped(rcv) == TRUE

SendOk(rcv) == rcv > 0
Sent(cmd, rcv) == [cmd |-> cmd, ok |-> SendOk(rcv)]

Response(op, sub, status, body, message) ==
    [op |-> op, sub |-> sub, arg |-> <<>>, status |-> status, body |-> body,
     message |-> message]
\* the same, with the operation's input
Reply(arg, op, sub, status, body, message) ==
    [Response(op, sub, status, body, message) EXCEPT !.arg = arg]

NoOperation == Response("none", "", 0, "", <<>>)
\* no request is in flight
NoTasks == <<>>

\* the fields of SharedRobotState behind an RwLock
Slots == {"manual_lock", "current_state", "last_state_update", "active_route",
          "queue", "robot_url", "cached_nodes"}

\* no guard is held, no request waits
NoGuards == [s \in Slots |-> [held |-> {}, waiting |-> <<>>]]
Idle == last.op = "none"

\* SharedRobotState::new()
NewStore ==
    [current_state |-> None, last_state_update |-> None, manual_lock |-> None,
     queue |-> <<>>, active_route |-> None]

(***************************************************************************)
(* SharedRobotState::is_robot_connected.                                   *)
(***************************************************************************)
\* mutant: a timestamp exactly 30 s old still counts as connected
is_robot_connected_inclusive(s, t) ==
    IF IsSome(s.last_state_update)
    THEN (t - Unwrap(s.last_state_update)) <= ROBOT_STALE_TIMEOUT_SECS
    ELSE FALSE

is_robot_connected(s, t) ==
    IF IsSome(s.last_state_update)
    THEN (t - Unwrap(s.last_state_update)) < ROBOT_STALE_TIMEOUT_SECS
    ELSE FALSE

(***************************************************************************)
(* process_queue, step by step.  The result is the store it leaves and     *)
(* the send calls it made.                                                 *)
(***************************************************************************)
NoDispatch(s) == [store |-> s, emitted |-> <<>>]

\* mutant: any stored lock stops the dispatch, expired or not
pq_lock_blocks_stored(s, t) ==
    IsSome(s.manual_lock)

\* 1. an unexpired manual lock stops the dispatch
pq_lock_blocks(s, t) ==
    IsSome(s.manual_lock) /\ Unwrap(s.manual_lock).expires_at > t

\* 3. the robot is IDLE; unknown telemetry is not
pq_is_idle(s) ==
    IF IsSome(s.current_state)
    THEN Unwrap(s.current_state).drive_mode = "IDLE"
    ELSE FALSE

\* mutant: pop_back in place of pop_front
pq_dispatch_pop_back(s, rcv) ==
    IF IsSome(s.active_route) THEN NoDispatch(s)
    ELSE IF s.queue = <<>> THEN NoDispatch(s)
    ELSE LET next_route == s.queue[Len(s.queue)]
             popped == SubSeq(s.queue, 1, Len(s.queue) - 1)
             cmd == Navigate(next_route.start, next_route.destination)
         IN  IF SendOk(rcv)
             THEN [store |-> [s EXCEPT !.queue = popped,
                                       !.active_route = Some(next_route)],
                   emitted |-> <<Sent(cmd, rcv)>>]
             ELSE [store |-> [s EXCEPT !.queue = Append(popped, next_route)],
                   emitted |-> <<Sent(cmd, rcv)>>]

\* mutant: the popped route is not put back when the send fails
pq_dispatch_drops(s, rcv) ==
    IF IsSome(s.active_route) THEN NoDispatch(s)
    ELSE IF s.queue = <<>> THEN NoDispatch(s)
    ELSE LET next_route == Head(s.queue)
             popped == Tail(s.queue)
             cmd == Navigate(next_route.start, next_route.destination)
         IN  IF SendOk(rcv)
             THEN [store |-> [s EXCEPT !.queue = popped,
                                       !.active_route = Some(next_route)],
                   emitted |-> <<Sent(cmd, rcv)>>]
             ELSE [store |-> [s EXCEPT !.queue = popped],
                   emitted |-> <<Sent(cmd, rcv)>>]

\* 4.-7. under the active_route and queue write locks
pq_dispatch(s, rcv) ==
    IF IsSome(s.active_route) THEN NoDispatch(s)
    ELSE IF s.queue = <<>> THEN NoDispatch(s)
    ELSE LET next_route == Head(s.queue)
             popped == Tail(s.queue)
             cmd == Navigate(next_route.start, next_route.destination)
         IN  IF SendOk(rcv)
             THEN [store |-> [s EXCEPT !.queue = popped,
                                       !.active_route = Some(next_route)],
                   emitted |-> <<Sent(cmd, rcv)>>]
             ELSE [store |-> [s EXCEPT !.queue = <<next_route>> \o popped],
                   emitted |-> <<Sent(cmd, rcv)>>]

process_queue(s, t, rcv) ==
    IF pq_lock_blocks(s, t) THEN NoDispatch(s)
    ELSE IF ~is_robot_connected(s, t) THEN NoDispatch(s)
    ELSE IF ~pq_is_idle(s) THEN NoDispatch(s)
    ELSE pq_dispatch(s, rcv)

(***************************************************************************)
(* Init: SharedRobotState::new(); the channel's first receiver is dropped. *)
(***************************************************************************)
Init ==
    /\ now = 0
    /\ current_state = NewStore.current_state
    /\ last_state_update = NewStore.last_state_update
    /\ manual_lock = NewStore.manual_lock
    /\ queue = NewStore.queue
    /\ active_route = NewStore.active_route
    /\ receivers = 0
    /\ next_id = 1
    /\ robot_url = None
    /\ cached_nodes = None
    /\ guards = NoGuards
    /\ tasks = NoTasks
    /\ emitted = <<>>
    /\ last = NoOperation
    /\ pre = NewStore

\* the operation's history is dropped before the next one
Forget ==
    /\ ~Idle
    /\ last' = NoOperation
    /\ pre' = NewStore
    /\ emitted' = <<>>
    /\ UNCHANGED <<cached_nodes, guards, robot_url, tasks, now, current_state, last_state_update, manual_lock, queue,
                   active_route, receivers, next_id>>

(***************************************************************************)
(* The clock and the robot-bound sockets.                                  *)
(***************************************************************************)
Tick(d) ==
    /\ Idle
    /\ now + d <= MaxNow
    /\ now' = now + d
    /\ UNCHANGED <<cached_nodes, guards, robot_url, tasks, current_state, last_state_update, manual_lock, queue,
                   active_route, receivers, next_id, emitted, last, pre>>

\* handle_robot_socket: subscribe on upgrade
RobotSocketOpen ==
    /\ Idle
    /\ receivers < MaxReceivers
    /\ receivers' = receivers + 1
    /\ UNCHANGED <<cached_nodes, guards, robot_url, tasks, now, current_state, last_state_update, manual_lock, queue,
                   active_route, next_id, emitted, last, pre>>

\* handle_robot_socket: the loop ends (send error), the receiver is dropped
RobotSocketClose ==
    /\ Idle
    /\ receivers > 0
    /\ receivers' = receivers - 1
    /\ UNCHANGED <<cached_nodes, guards, robot_url, tasks, now, current_state, last_state_update, manual_lock, queue,
                   active_route, next_id, emitted, last, pre>>

(***************************************************************************)
(* A call of process_queue.                                                *)
(***************************************************************************)
ProcessQueue ==
    LET r == process_queue(Store, now, receivers)
    IN  /\ Idle /\ pre' = Store
        /\ SetStore(r.store)
        /\ emitted' = r.emitted
        /\ last' = Response("process_queue", "", 0, "", <<>>)
        /\ UNCHANGED <<cached_nodes, guards, robot_url, tasks, now, receivers, next_id>>

(***************************************************************************)
(* POST /drive/lock: acquire_lock.                                         *)
(***************************************************************************)
\* mutant: the holder of the stored lock may renew while a route is active
acquire_refused_unless_holder(s, u) ==
    /\ ~is_admin(u.role) /\ IsSome(s.active_route)
    /\ ~(IsSome(s.manual_lock)
          /\ UuidToString(Unwrap(s.manual_lock).holder_id) = u.sub)

\* a non-admin is refused while an automated route is active
acquire_refused_by_route(s, u) ==
    ~is_admin(u.role) /\ IsSome(s.active_route)

\* mutant: a stored lock of another user counts, expired or not
acquire_held_by_other_stored(s, u, t) ==
    /\ IsSome(s.manual_lock)
    /\ UuidToString(Unwrap(s.manual_lock).holder_id) # u.sub

\* mutant: the holder is not compared, no lock is ever another user's
acquire_held_by_nobody(s, u, t) ==
    FALSE

\* an unexpired lock of another user
acquire_held_by_other(s, u, t) ==
    /\ IsSome(s.manual_lock)
    /\ Unwrap(s.manual_lock).expires_at > t
    /\ UuidToString(Unwrap(s.manual_lock).holder_id) # u.sub

\* mutant: the expiry is the acquisition time, the TTL is not added
acquire_new_lock_no_ttl(u, t) ==
    LockInfo(Unwrap(UuidParseStr(u.sub)), u.name, t)

\* the lock the handler stores on success
acquire_new_lock(u, t) ==
    LockInfo(Unwrap(UuidParseStr(u.sub)), u.name, t + LOCK_TTL_SECS)

AcquireLock(u) ==
    /\ Idle /\ pre' = Store
    /\ emitted' = <<>>
    /\ UNCHANGED <<cached_nodes, guards, robot_url, tasks, now, current_state, last_state_update, queue, active_route,
                   receivers, next_id>>
    /\ IF ~can_operate(u.role)
       THEN /\ manual_lock' = manual_lock
            /\ last' = Response("acquire_lock", u.sub, 403, "", <<>>)
       ELSE IF acquire_refused_by_route(Store, u)
       THEN /\ manual_lock' = manual_lock
            /\ last' = Response("acquire_lock", u.sub, 200, "error",
                    <<"Cannot acquire lock while automated route is active">>)
       ELSE IF acquire_held_by_other(Store, u, now) /\ ~is_admin(u.role)
       THEN /\ manual_lock' = manual_lock
            /\ last' = Response("acquire_lock", u.sub, 200, "error",
                    <<"Lock held by ", Unwrap(manual_lock).holder_name>>)
       ELSE IF IsSome(UuidParseStr(u.sub))
       THEN /\ manual_lock' = Some(acquire_new_lock(u, now))
            /\ last' = Response("acquire_lock", u.sub, 200, "success",
                    IF is_admin(u.role) /\ IsSome(active_route)
                    THEN <<"Admin lock acquired while automated route is active">>
                    ELSE <<"Lock acquired">>)
       ELSE /\ manual_lock' = manual_lock
            /\ last' = Response("acquire_lock", u.sub, 200, "error",
                    <<"Invalid User ID">>)

(***************************************************************************)
(* DELETE /drive/lock: release_lock.                                       *)
(***************************************************************************)
\* mutant: any stored lock may be released, the holder is not compared
release_is_stored(s, u) ==
    IsSome(s.manual_lock)

release_is_holder(s, u) ==
    IsSome(s.manual_lock) /\ UuidToString(Unwrap(s.manual_lock).holder_id) = u.sub

ReleaseLock(u) ==
    /\ Idle /\ pre' = Store
    /\ emitted' = <<>>
    /\ UNCHANGED <<cached_nodes, guards, robot_url, tasks, now, current_state, last_state_update, queue, active_route,
                   receivers, next_id>>
    /\ IF ~can_operate(u.role)
       THEN /\ manual_lock' = manual_lock
            /\ last' = Response("release_lock", u.sub, 403, "", <<>>)
       ELSE IF release_is_holder(Store, u)
       THEN /\ manual_lock' = None
            /\ last' = Response("release_lock", u.sub, 200, "success",
                    <<"Lock released">>)
       ELSE /\ manual_lock' = manual_lock
            /\ last' = Response("release_lock", u.sub, 200, "error",
                    <<"You do not hold the lock">>)

(***************************************************************************)
(* GET /ws/drive/manual: one text frame of handle_manual_socket.           *)
(***************************************************************************)
IsNavigate(cmd) == cmd.command = "NAVIGATE"
\* mutant: Led is not on the admin-only list
IsAdminOnlyAudio(cmd) == cmd.command \in {"AUDIO_BEEP", "AUDIO_VOLUME"}
IsAdminOnly(cmd) == cmd.command \in {"LED", "AUDIO_BEEP", "AUDIO_VOLUME"}

\* the admin's Navigate revokes a stored lock of anybody else
preempt_should_revoke(s, u) ==
    IF IsSome(s.manual_lock)
    THEN UuidToString(Unwrap(s.manual_lock).holder_id) # u.sub
    ELSE FALSE

\* mutant: the admin's Navigate leaves the stored lock alone
preempt_lock_kept(s, u) ==
    s.manual_lock

preempt_lock(s, u) ==
    IF preempt_should_revoke(s, u) THEN None ELSE s.manual_lock

\* mutant: the preempted route goes to the back of the queue
preempt_queue_back(s) ==
    IF IsSome(s.active_route)
    THEN Append(s.queue, Unwrap(s.active_route))
    ELSE s.queue

\* mutant: the preempted route is not put back
preempt_queue_lost(s) ==
    s.queue

\* the queue after the preemption: the active route goes back to the front
preempt_queue(s) ==
    IF IsSome(s.active_route)
    THEN <<Unwrap(s.active_route)>> \o s.queue
    ELSE s.queue

\* the send calls of the preemption, before the admin's own command
preempt_emitted(s, rcv) ==
    IF IsSome(s.active_route) THEN <<Sent(Cancel, rcv)>> ELSE <<>>

\* the admin branch for a Navigate frame
admin_navigate(s, u, cmd, t, rcv, id) ==
    [store |-> [s EXCEPT
                  !.manual_lock = preempt_lock(s, u),
                  !.queue = preempt_queue(s),
                  !.active_route =
                      Some(QueuedRoute(id, cmd.start, cmd.destination, t, u.name))],
     emitted |-> preempt_emitted(s, rcv) \o <<Sent(cmd, rcv)>>]

\* the operator must be the holder of the stored lock
operator_is_holder(s, u) ==
    IF IsSome(s.manual_lock)
    THEN UuidToString(Unwrap(s.manual_lock).holder_id) = u.sub
    ELSE FALSE

manual_frame(s, u, cmd, t, rcv, id) ==
    IF cmd.command = "MALFORMED" THEN NoDispatch(s)
    ELSE IF ~can_operate(u.role) THEN NoDispatch(s)
    ELSE IF ~is_admin(u.role) /\ IsAdminOnly(cmd) THEN NoDispatch(s)
    ELSE IF is_admin(u.role)
    THEN IF IsNavigate(cmd)
         THEN admin_navigate(s, u, cmd, t, rcv, id)
         ELSE [store |-> s, emitted |-> <<Sent(cmd, rcv)>>]
    ELSE IF is_operator(u.role)
    THEN IF cmd.command \in {"NAVIGATE", "CANCEL"} THEN NoDispatch(s)
         ELSE IF operator_is_holder(s, u)
         THEN [store |-> s, emitted |-> <<Sent(cmd, rcv)>>]
         ELSE NoDispatch(s)
    ELSE NoDispatch(s)

\* the frame makes a route: it takes a fresh Uuid
FrameMakesRoute(u, cmd) == is_admin(u.role) /\ IsNavigate(cmd)

ManualFrame(u, cmd) ==
    /\ Idle /\ pre' = Store
    /\ FrameMakesRoute(u, cmd) => next_id <= MaxRoutes
    /\ LET r == manual_frame(Store, u, cmd, now, receivers, next_id)
       IN  /\ SetStore(r.store)
           /\ emitted' = r.emitted
           /\ last' = Reply(<<cmd>>, "manual_frame", u.sub, 0, "", <<>>)
    /\ next_id' = IF FrameMakesRoute(u, cmd) THEN next_id + 1 ELSE next_id
    /\ UNCHANGED <<cached_nodes, guards, robot_url, tasks, now, receivers>>

(***************************************************************************)
(* POST /routes/select: select_route.                                      *)
(***************************************************************************)
\* mutant: a stored lock blocks the selection, expired or not
select_locked_stored(s, t) == IsSome(s.manual_lock)

select_locked(s, t) ==
    IsSome(s.manual_lock) /\ Unwrap(s.manual_lock).expires_at > t

\* mutant: the new route goes to the front of the queue
push_in_front(s, route) == [s EXCEPT !.queue = <<route>> \o s.queue]

push_back(s, route) == [s EXCEPT !.queue = Append(s.queue, route)]

SelectRoute(u, p) ==
    /\ Idle /\ pre' = Store
    /\ UNCHANGED <<cached_nodes, guards, robot_url, tasks, now, receivers>>
    /\ IF ~can_operate(u.role)
       THEN /\ UNCHANGED <<current_state, last_state_update, manual_lock, queue,
                           active_route, next_id>>
            /\ emitted' = <<>>
            /\ last' = Reply(p, "select_route", u.sub, 403, "", <<>>)
       ELSE IF select_locked(Store, now)
       THEN /\ UNCHANGED <<current_state, last_state_update, manual_lock, queue,
                           active_route, next_id>>
            /\ emitted' = <<>>
            /\ last' = Reply(p, "select_route", u.sub, 200, "error",
                    <<"Robot is manually locked">>)
       ELSE /\ next_id <= MaxRoutes
            /\ LET route == QueuedRoute(next_id, p[1], p[2], now, u.name)
                   r == process_queue(push_back(Store, route), now, receivers)
               IN  /\ SetStore(r.store)
                   /\ emitted' = r.emitted
            /\ next_id' = next_id + 1
            /\ last' = Reply(p, "select_route", u.sub, 200, "success",
                    <<"Route queued">>)

(***************************************************************************)
(* POST /routes and DELETE /routes/{id}: add_route, delete_route.          *)
(***************************************************************************)
AddRoute(u, p) ==
    /\ Idle /\ pre' = Store
    /\ UNCHANGED <<cached_nodes, guards, robot_url, tasks, now, receivers>>
    /\ IF ~is_admin(u.role)
       THEN /\ UNCHANGED <<current_state, last_state_update, manual_lock, queue,
                           active_route, next_id>>
            /\ emitted' = <<>>
            /\ last' = Reply(p, "add_route", u.sub, 403, "", <<>>)
       ELSE /\ next_id <= MaxRoutes
            /\ LET route == QueuedRoute(next_id, p[1], p[2], now, u.name)
                   r == process_queue(push_back(Store, route), now, receivers)
               IN  /\ SetStore(r.store)
                   /\ emitted' = r.emitted
            /\ next_id' = next_id + 1
            /\ last' = Reply(p, "add_route", u.sub, 201, "", <<>>)

\* queue.iter().position(|r| r.id == id): 0 stands for None
position(q, id) ==
    IF \E i \in 1..Len(q) : q[i].id = id
    THEN CHOOSE i \in 1..Len(q) :
            q[i].id = id /\ \A j \in 1..(i - 1) : q[j].id # id
    ELSE 0

remove(q, pos) == SubSeq(q, 1, pos - 1) \o SubSeq(q, pos + 1, Len(q))

\* mutant: the id is looked up in the active route as well
DeleteRouteOrActive(u, id) ==
    /\ Idle /\ pre' = Store
    /\ emitted' = <<>>
    /\ UNCHANGED <<cached_nodes, guards, robot_url, tasks, now, current_state, last_state_update, manual_lock,
                   receivers, next_id>>
    /\ IF ~is_admin(u.role)
       THEN /\ UNCHANGED <<queue, active_route>>
            /\ last' = Reply(<<id>>, "delete_route", u.sub, 403, "", <<>>)
       ELSE IF IsSome(active_route) /\ Unwrap(active_route).id = id
       THEN /\ active_route' = None
            /\ queue' = queue
            /\ last' = Reply(<<id>>, "delete_route", u.sub, 204, "", <<>>)
       ELSE IF position(queue, id) # 0
       THEN /\ queue' = remove(queue, position(queue, id))
            /\ active_route' = active_route
            /\ last' = Reply(<<id>>, "delete_route", u.sub, 204, "", <<>>)
       ELSE /\ UNCHANGED <<queue, active_route>>
            /\ last' = Reply(<<id>>, "delete_route", u.sub, 404, "", <<>>)

DeleteRoute(u, id) ==
    /\ Idle /\ pre' = Store
    /\ emitted' = <<>>
    /\ UNCHANGED <<cached_nodes, guards, robot_url, tasks, now, current_state, last_state_update, manual_lock,
                   active_route, receivers, next_id>>
    /\ IF ~is_admin(u.role)
       THEN /\ queue' = queue
            /\ last' = Reply(<<id>>, "delete_route", u.sub, 403, "", <<>>)
       ELSE IF position(queue, id) # 0
       THEN /\ queue' = remove(queue, position(queue, id))
            /\ last' = Reply(<<id>>, "delete_route", u.sub, 204, "", <<>>)
       ELSE /\ queue' = queue
            /\ last' = Reply(<<id>>, "delete_route", u.sub, 404, "", <<>>)

(***************************************************************************)
(* GET /routes: get_routes.  The response is the active route, if any,     *)
(* followed by the queue.                                                  *)
(***************************************************************************)
get_routes(active, q) == active \o q

GetRoutes ==
    /\ Idle /\ pre' = Store
    /\ emitted' = <<>>
    /\ UNCHANGED <<cached_nodes, guards, robot_url, tasks, now, current_state, last_state_update, manual_lock,
                   queue, active_route, receivers, next_id>>
    /\ last' = Reply(<<>>, "get_routes", "", 200, "", get_routes(active_route, queue))

(***************************************************************************)
(* POST /routes/optimize: optimize_routes, and the path solver of          *)
(* optimization_helper.rs with the cost closure the handler passes.        *)
(***************************************************************************)
\* rounds of the improvement loop of two_opt_atsp_path that are followed
TwoOptRounds == 4

\* the closure of optimize_routes: 0.0 if from == to, else 1.0
default_cost(from, to) == IF from = to THEN 0 ELSE 1

transition_cost(a, b) == default_cost(a.destination, b.start)

\* Vec::sort_by_key(|r| r.added_at) is stable: r goes behind the entries
\* that are not younger than it
RECURSIVE insert_by_key(_, _)
insert_by_key(sorted, r) ==
    IF sorted = <<>> THEN <<r>>
    ELSE IF Head(sorted).added_at <= r.added_at
    THEN CHOOSE inserted \in
            {<<Head(sorted)>> \o insert_by_key(rest, r) : rest \in {Tail(sorted)}} : TRUE
    ELSE <<r>> \o sorted

RECURSIVE sort_by_key(_)
sort_by_key(routes) ==
    IF routes = <<>> THEN <<>>
    ELSE CHOOSE sorted \in
            {insert_by_key(front, routes[Len(routes)]) :
                front \in {sort_by_key(SubSeq(routes, 1, Len(routes) - 1))}} : TRUE

\* mutant: the routes are taken in the order of the queue
keep_order(routes) == routes

\* Iterator::min_by returns the first of the cheapest entries
best_idx(lst, routes) ==
    CHOOSE i \in 1..Len(routes) :
        /\ \A k \in 1..Len(routes) :
              transition_cost(lst, routes[i]) <= transition_cost(lst, routes[k])
        /\ \A k \in 1..(i - 1) :
              transition_cost(lst, routes[i]) < transition_cost(lst, routes[k])

RECURSIVE greedy_extend(_, _)
greedy_extend(path, routes) ==
    IF routes = <<>> THEN path
    ELSE CHOOSE extended \in
            {greedy_extend(a[1], a[2]) :
                a \in {<<Append(path, routes[i]), remove(routes, i)>> :
                          i \in {best_idx(path[Len(path)], routes)}}} : TRUE

greedy_atsp_path(routes) ==
    IF Len(routes) <= 1 THEN routes
    ELSE LET sorted == sort_by_key(routes)
         IN  greedy_extend(<<Head(sorted)>>, Tail(sorted))

\* path[i + 1..j].reverse(), in the indices of the sequence: the entries
\* from lo to hi change places
RECURSIVE reversed(_)
reversed(s) ==
    IF s = <<>> THEN <<>> ELSE Append(reversed(Tail(s)), Head(s))

reverse(path, lo, hi) ==
    SubSeq(path, 1, lo - 1) \o reversed(SubSeq(path, lo, hi))
        \o SubSeq(path, hi + 1, Len(path))

\* one visit of the pair (i, j) of the two loops; a, b, c, d as in the code
two_opt_visit(w, i, j) ==
    LET a == w.path[i]
        b == w.path[i + 1]
        c == w.path[j - 1]
        d == w.path[j]
        current == transition_cost(a, b) + transition_cost(c, d)
        swapped == transition_cost(a, c) + transition_cost(b, d)
    IN  IF swapped < current
        THEN [path |-> reverse(w.path, i + 1, j - 1), improved |-> TRUE]
        ELSE w

\* the two for loops from the pair (i, j) on: i in 1..n-2, j in i+2..n
RECURSIVE two_opt_pass(_, _, _)
two_opt_pass(w, i, j) ==
    LET n == Len(w.path)
    IN  IF i > n - 2 THEN w
        ELSE IF j > n THEN two_opt_pass(w, i + 1, i + 3)
        ELSE CHOOSE passed \in
                {two_opt_pass(v, i, j + 1) : v \in {two_opt_visit(w, i, j)}} : TRUE

\* while improved { ... }
RECURSIVE two_opt_loop(_, _)
two_opt_loop(path, rounds) ==
    CHOOSE looped \in
        {IF w.improved /\ rounds > 1 THEN two_opt_loop(w.path, rounds - 1)
         ELSE w.path :
            w \in {two_opt_pass([path |-> path, improved |-> FALSE], 1, 3)}} : TRUE

two_opt_atsp_path(path) ==
    IF Len(path) < 4 THEN path ELSE two_opt_loop(path, TwoOptRounds)

solve_atsp_path(routes) == two_opt_atsp_path(greedy_atsp_path(routes))

\* mutant: every caller may reorder the queue
OptimizeRoutesAnyRole(u) ==
    /\ Idle /\ pre' = Store
    /\ emitted' = <<>>
    /\ UNCHANGED <<cached_nodes, guards, robot_url, tasks, now, current_state, last_state_update, manual_lock,
                   active_route, receivers, next_id>>
    /\ queue' = solve_atsp_path(queue)
    /\ last' = Reply(<<>>, "optimize_routes", u.sub, 200, "success",
                     <<"Optimization triggered">>)

OptimizeRoutes(u) ==
    /\ Idle /\ pre' = Store
    /\ emitted' = <<>>
    /\ UNCHANGED <<cached_nodes, guards, robot_url, tasks, now, current_state, last_state_update, manual_lock,
                   active_route, receivers, next_id>>
    /\ IF ~is_admin(u.role)
       THEN /\ queue' = queue
            /\ last' = Reply(<<>>, "optimize_routes", u.sub, 403, "", <<>>)
       ELSE /\ queue' = solve_atsp_path(queue)
            /\ last' = Reply(<<>>, "optimize_routes", u.sub, 200, "success",
                             <<"Optimization triggered">>)

(***************************************************************************)
(* POST /table/state: update_robot_state.                                  *)
(***************************************************************************)
RobotState(drive_mode) == [drive_mode |-> drive_mode]

\* mutant: the active route is never cleared by a post
state_posted_keeps(s, mode) ==
    [s EXCEPT !.current_state = Some(RobotState(mode))]

\* mutant: the active route is cleared whatever the drive mode
state_posted_any_mode(s, mode) ==
    [s EXCEPT !.current_state = Some(RobotState(mode)),
              !.active_route = None]

\* telemetry and completion, before the dispatch
state_posted(s, mode) ==
    [s EXCEPT !.current_state = Some(RobotState(mode)),
              !.active_route = IF IsSome(s.active_route) /\ mode = "IDLE"
                               THEN None ELSE s.active_route]

\* mutant: the X-Api-Key header is not checked
UpdateRobotStateAnyKey(key_ok, mode) ==
    /\ Idle /\ pre' = Store
    /\ UNCHANGED <<cached_nodes, guards, robot_url, tasks, now, receivers, next_id>>
    /\ LET r == process_queue(state_posted(Store, mode), now, receivers)
       IN  /\ SetStore(r.store)
           /\ emitted' = r.emitted
    /\ last' = Reply(<<mode>>, "update_robot_state", "",
                     IF key_ok THEN 200 ELSE 401,
                     IF key_ok THEN "success" ELSE "error", <<>>)

UpdateRobotState(key_ok, mode) ==
    /\ Idle /\ pre' = Store
    /\ UNCHANGED <<cached_nodes, guards, robot_url, tasks, now, receivers, next_id>>
    /\ IF ~key_ok
       THEN /\ UNCHANGED <<current_state, last_state_update, manual_lock, queue,
                           active_route>>
            /\ emitted' = <<>>
            /\ last' = Reply(<<mode>>, "update_robot_state", "", 401, "error",
                    <<"Invalid API Key">>)
       ELSE /\ LET r == process_queue(state_posted(Store, mode), now, receivers)
               IN  /\ SetStore(r.store)
                   /\ emitted' = r.emitted
            /\ last' = Reply(<<mode>>, "update_robot_state", "", 200, "success", <<>>)

(***************************************************************************)
(* GET /status: get_status.  Of the response, the drive mode and the       *)
(* manual_lock_holder_name are kept.                                       *)
(***************************************************************************)
StatusResponse(drive_mode, manual_lock_holder_name) ==
    [drive_mode |-> drive_mode,
     manual_lock_holder_name |-> manual_lock_holder_name]

get_status(s) ==
    StatusResponse(
        IF IsSome(s.current_state)
        THEN Unwrap(s.current_state).drive_mode ELSE "UNKNOWN",
        \* lock_state.as_ref().map(|l| l.holder_name.clone())
        IF IsSome(s.manual_lock)
        THEN Some(Unwrap(s.manual_lock).holder_name) ELSE None)

GetStatus ==
    /\ Idle /\ pre' = Store
    /\ emitted' = <<>>
    /\ UNCHANGED <<cached_nodes, guards, robot_url, tasks, now, current_state, last_state_update, manual_lock, queue,
                   active_route, receivers, next_id>>
    /\ LET status == get_status(Store)
       IN  last' = Reply(<<>>, "get_status", "", 200, status.drive_mode,
                         status.manual_lock_holder_name)

(***************************************************************************)
(* SharedRobotState::clear_expired_lock: the store it leaves and the       *)
(* value it returns.  No task of the server calls it; the tests do.        *)
(***************************************************************************)
\* mutant: a lock expiring exactly now is kept
clear_expired_lock_strict(s, t) ==
    IF IsSome(s.manual_lock)
    THEN IF Unwrap(s.manual_lock).expires_at < t
         THEN [store |-> [s EXCEPT !.manual_lock = None], result |-> TRUE]
         ELSE [store |-> s, result |-> FALSE]
    ELSE [store |-> s, result |-> FALSE]

clear_expired_lock(s, t) ==
    IF IsSome(s.manual_lock)
    THEN IF Unwrap(s.manual_lock).expires_at <= t
         THEN [store |-> [s EXCEPT !.manual_lock = None], result |-> TRUE]
         ELSE [store |-> s, result |-> FALSE]
    ELSE [store |-> s, result |-> FALSE]

ClearExpiredLock ==
    LET r == clear_expired_lock(Store, now)
    IN  /\ Idle /\ pre' = Store
        /\ SetStore(r.store)
        /\ emitted' = <<>>
        /\ last' = Reply(<<>>, "clear_expired_lock", "", 0,
                         IF r.result THEN "true" ELSE "false", <<>>)
        /\ UNCHANGED <<cached_nodes, guards, robot_url, tasks, now, receivers, next_id>>

(***************************************************************************)
(* The program: every handler may run at any time.                         *)
(***************************************************************************)
RouteIds == 1..(MaxRoutes + 3)

Handlers ==
    \/ ProcessQueue
    \/ \E u \in Users : AcquireLock(u)
    \/ \E u \in Users : ReleaseLock(u)
    \/ \E u \in RouteCallers, cmd \in FrameInputs : ManualFrame(u, cmd)
    \/ \E u \in RouteCallers, p \in RouteInputs : SelectRoute(u, p)
    \/ \E u \in RouteCallers, p \in RouteInputs : AddRoute(u, p)
    \/ \E u \in RouteCallers, id \in RouteIds : DeleteRoute(u, id)
    \/ \E key_ok \in BOOLEAN, mode \in DriveModes : UpdateRobotState(key_ok, mode)
    \/ GetStatus
    \/ GetRoutes
    \/ \E u \in RouteCallers : OptimizeRoutes(u)

Next ==
    \/ \E d \in TickSteps : Tick(d)
    \/ RobotSocketOpen
    \/ RobotSocketClose
    \/ Handlers
    \/ Forget

Spec == Init /\ [][Next]_vars

(***************************************************************************)
(* One call of a handler on a store as the tests install it: they write    *)
(* the slots of SharedRobotState directly (a fresh, stale or missing       *)
(* telemetry timestamp, a live or expired lock, queued and active routes)  *)
(* and then call the handler.                                              *)
(***************************************************************************)
FixtureRoutes ==
    { QueuedRoute(MaxRoutes + 1, "A", "B", -20, "Ada"),
      QueuedRoute(MaxRoutes + 2, "B", "C", -30, "Oli"),
      QueuedRoute(MaxRoutes + 3, "A", "B", -10, "Oli") }

FixtureQueues ==
    { q \in UNION {[1..k -> FixtureRoutes] : k \in 0..MaxFixtureQueue} :
        \A i, j \in 1..Len(q) : i # j => q[i].id # q[j].id }

FixtureLocks ==
    {None} \cup
    { Some(LockInfo(Unwrap(UuidParseStr(u.sub)), u.name, e)) :
        u \in {Ada, Oli, Pat}, e \in {-10, 0, 15, LOCK_TTL_SECS} }

FixtureUpdates == {None} \cup {Some(t) : t \in {0, -29, -30, -60}}

FixtureStates == {None} \cup {Some(RobotState(m)) : m \in DriveModes}

InitStore ==
    /\ now = 0
    /\ current_state \in FixtureStates
    /\ last_state_update \in FixtureUpdates
    /\ manual_lock \in FixtureLocks
    /\ queue \in FixtureQueues
    /\ active_route \in {None} \cup
           {Some(r) : r \in {x \in FixtureRoutes :
                                \A i \in 1..Len(queue) : queue[i].id # x.id}}
    /\ receivers \in 0..MaxReceivers
    /\ next_id = 1
    /\ robot_url = None
    /\ cached_nodes = None
    /\ guards = NoGuards
    /\ tasks = NoTasks
    /\ emitted = <<>>
    /\ last = NoOperation
    /\ pre = NewStore

\* the calls the tests make: the handlers, and clear_expired_lock directly
Calls ==
    \/ Handlers
    \/ ClearExpiredLock

SpecCall == InitStore /\ [][Calls]_vars

(***************************************************************************)
(* The server left alone: no client request, no state post.  The server    *)
(* spawns no periodic task, so that only the time passes; it passes for    *)
(* ever.                                                                   *)
(***************************************************************************)
Silence == \E d \in TickSteps : Tick(d)

SpecSilent == InitStore /\ [][Silence]_vars /\ WF_vars(Silence)

(***************************************************************************)
(* POST /table/register: register_robot.  The request carries the          *)
(* X-Api-Key header (right or not), the headers X-Real-IP and              *)
(* X-Forwarded-For (absent, or a text), the peer address of the connection *)
(* and the port of the payload.  The handler writes robot_url only.        *)
(***************************************************************************)
IpTexts == {"10.0.0.1", "10.0.0.2"}
HeaderTexts == IpTexts \cup {"unknown"}
Ports == {8000, 8001}

\* str::parse::<IpAddr>(): Some(ip) for the text of an address, else None
parse_ip(text) == IF text \in IpTexts THEN Some(text) ELSE None

\* X-Forwarded-For as the list of its comma-separated items, trimmed
ForwardedInputs ==
    {None, Some(<<"10.0.0.2", "10.0.0.1">>), Some(<<"unknown", "10.0.0.1">>)}
RealIpInputs == {None} \cup {Some(x) : x \in HeaderTexts}

\* the address the URL is built from: X-Real-IP when the header is present
\* (the peer address when its text is no address), else the first item of
\* X-Forwarded-For, else the peer address
register_ip(real_ip, fwd, peer) ==
    IF IsSome(real_ip)
    THEN IF IsSome(parse_ip(Unwrap(real_ip)))
         THEN Unwrap(parse_ip(Unwrap(real_ip))) ELSE peer
    ELSE IF IsSome(fwd)
    THEN IF IsSome(parse_ip(Head(Unwrap(fwd))))
         THEN Unwrap(parse_ip(Head(Unwrap(fwd)))) ELSE peer
    ELSE peer

\* format!("http://{ip}:{port}")
Url(ip, port) == [scheme |-> "http", ip |-> ip, port |-> port]

RegisterInput(key_ok, real_ip, fwd, peer, port) ==
    [key_ok |-> key_ok, real_ip |-> real_ip, fwd |-> fwd, peer |-> peer, port |-> port]

\* the store before a registration, with the URL slot
StoreWithUrl ==
    [current_state |-> current_state, last_state_update |-> last_state_update,
     manual_lock |-> manual_lock, queue |-> queue, active_route |-> active_route,
     robot_url |-> robot_url]

RegisterRobot(key_ok, real_ip, fwd, peer, port) ==
    /\ Idle /\ pre' = StoreWithUrl
    /\ emitted' = <<>>
    /\ UNCHANGED <<cached_nodes, guards, tasks, now, current_state, last_state_update,
                   manual_lock, queue, active_route, receivers, next_id>>
    /\ LET url == Url(register_ip(real_ip, fwd, peer), port)
       IN  robot_url' = IF robot_url # Some(url) THEN Some(url) ELSE robot_url
    /\ last' = Reply(RegisterInput(key_ok, real_ip, fwd, peer, port),
                     "register_robot", "", 200, "", <<>>)

Registrations ==
    \/ \E key_ok \in BOOLEAN, real_ip \in RealIpInputs, fwd \in ForwardedInputs,
          peer \in IpTexts, port \in Ports :
          RegisterRobot(key_ok, real_ip, fwd, peer, port)
    \/ Forget

SpecRegister == Init /\ [][Registrations]_vars

(***************************************************************************)
(* The handlers in parallel.  The server runs every request as a task of   *)
(* a multi-threaded runtime, so that two requests interleave wherever no   *)
(* RwLock guard keeps them apart.  A task is at a point pc of its handler; *)
(* a step is the code from one lock acquisition to the next.  The guard of *)
(* active_route is the only one a handler keeps over an acquisition of     *)
(* another lock: process_queue from its check to its end, and the admin's  *)
(* Navigate from the take() to the installation of the new route.          *)
(*                                                                         *)
(* In this specification emitted is the log of all send calls, each with   *)
(* the task that made it and the route it dispatched (0: none).            *)
(***************************************************************************)
MaxTasks == 3

Task(op, pc, arg, route, before) ==
    [op |-> op, pc |-> pc, arg |-> arg, route |-> route, before |-> before,
     active |-> None, result |-> <<>>]

Emit(cmd, rcv, by, route) ==
    [cmd |-> cmd, ok |-> SendOk(rcv), by |-> by, route |-> route]

\* the ids of the routes in the store
StoredIds ==
    {queue[k].id : k \in 1..Len(queue)} \cup
    (IF IsSome(active_route) THEN {Unwrap(active_route).id} ELSE {})

\* mutant: process_queue lets go of the guard after its check
pq_guard_dropped(task) == FALSE

\* process_queue keeps active_route_guard from line 42 to its end
pq_guard(task) == task.pc = "pq_queue"

\* the admin's Navigate keeps active_route_guard over queue.write()
an_guard(task) == task.pc = "an_queue"

holds_active(task) == pq_guard(task) \/ an_guard(task)

\* active_route.read() or .write() is granted to task i
ActiveFree(i) == \A j \in 1..Len(tasks) : j # i => ~holds_active(tasks[j])

At(i, op, pc) == i \in 1..Len(tasks) /\ tasks[i].op = op /\ tasks[i].pc = pc

\* the task is inside process_queue, whichever handler called it
InQueueProcessing(i, pc) == i \in 1..Len(tasks) /\ tasks[i].pc = pc

Goto(i, pc) == tasks' = [tasks EXCEPT ![i].pc = pc]

\* a request arrives: a state post with the right key, an Admin's POST
\* /routes, an Admin's Navigate frame, or GET /routes
StartStatePost(mode) ==
    /\ Len(tasks) < MaxTasks
    /\ tasks' = Append(tasks, Task("update_robot_state", "us_state", mode, 0, {}))
    /\ UNCHANGED <<cached_nodes, guards, robot_url, now, current_state, last_state_update, manual_lock, queue,
                   active_route, receivers, next_id, emitted, last, pre>>

StartAddRoute(p) ==
    /\ Len(tasks) < MaxTasks
    /\ next_id <= MaxRoutes
    /\ tasks' = Append(tasks, Task("add_route", "ar_push", p, next_id, {}))
    /\ next_id' = next_id + 1
    /\ UNCHANGED <<cached_nodes, guards, robot_url, now, current_state, last_state_update, manual_lock, queue,
                   active_route, receivers, emitted, last, pre>>

StartAdminNavigate(p) ==
    /\ Len(tasks) < MaxTasks
    /\ next_id <= MaxRoutes
    /\ tasks' = Append(tasks, Task("admin_navigate", "an_lock", p, next_id, {}))
    /\ next_id' = next_id + 1
    /\ UNCHANGED <<cached_nodes, guards, robot_url, now, current_state, last_state_update, manual_lock, queue,
                   active_route, receivers, emitted, last, pre>>

StartGetRoutes ==
    /\ Len(tasks) < MaxTasks
    /\ tasks' = Append(tasks, Task("get_routes", "gr_active", <<>>, 0, StoredIds))
    /\ UNCHANGED <<cached_nodes, guards, robot_url, now, current_state, last_state_update, manual_lock, queue,
                   active_route, receivers, next_id, emitted, last, pre>>

\* update_robot_state, lines 32-35
UsState(i) ==
    /\ At(i, "update_robot_state", "us_state")
    /\ current_state' = Some(RobotState(tasks[i].arg))
    /\ Goto(i, "us_active")
    /\ UNCHANGED <<cached_nodes, guards, robot_url, now, last_state_update, manual_lock, queue, active_route,
                   receivers, next_id, emitted, last, pre>>

\* update_robot_state, lines 38-46
UsActive(i) ==
    /\ At(i, "update_robot_state", "us_active")
    /\ ActiveFree(i)
    /\ active_route' = state_posted(Store, tasks[i].arg).active_route
    /\ Goto(i, "pq_lock")
    /\ UNCHANGED <<cached_nodes, guards, robot_url, now, current_state, last_state_update, manual_lock, queue,
                   receivers, next_id, emitted, last, pre>>

\* add_route, lines 51-61
ArPush(i) ==
    /\ At(i, "add_route", "ar_push")
    /\ queue' = Append(queue, QueuedRoute(tasks[i].route, tasks[i].arg[1],
                                          tasks[i].arg[2], now, Ada.name))
    /\ Goto(i, "pq_lock")
    /\ UNCHANGED <<cached_nodes, guards, robot_url, now, current_state, last_state_update, manual_lock,
                   active_route, receivers, next_id, emitted, last, pre>>

\* process_queue, lines 14-21
PqLock(i) ==
    /\ InQueueProcessing(i, "pq_lock")
    /\ Goto(i, IF pq_lock_blocks(Store, now) THEN "done" ELSE "pq_conn")
    /\ UNCHANGED <<cached_nodes, guards, robot_url, now, current_state, last_state_update, manual_lock, queue,
                   active_route, receivers, next_id, emitted, last, pre>>

\* process_queue, lines 24-26
PqConn(i) ==
    /\ InQueueProcessing(i, "pq_conn")
    /\ Goto(i, IF ~is_robot_connected(Store, now) THEN "done" ELSE "pq_idle")
    /\ UNCHANGED <<cached_nodes, guards, robot_url, now, current_state, last_state_update, manual_lock, queue,
                   active_route, receivers, next_id, emitted, last, pre>>

\* process_queue, lines 29-39
PqIdle(i) ==
    /\ InQueueProcessing(i, "pq_idle")
    /\ Goto(i, IF ~pq_is_idle(Store) THEN "done" ELSE "pq_active")
    /\ UNCHANGED <<cached_nodes, guards, robot_url, now, current_state, last_state_update, manual_lock, queue,
                   active_route, receivers, next_id, emitted, last, pre>>

\* process_queue, lines 42-45
PqActive(i) ==
    /\ InQueueProcessing(i, "pq_active")
    /\ ActiveFree(i)
    /\ Goto(i, IF IsSome(active_route) THEN "done" ELSE "pq_queue")
    /\ UNCHANGED <<cached_nodes, guards, robot_url, now, current_state, last_state_update, manual_lock, queue,
                   active_route, receivers, next_id, emitted, last, pre>>

\* process_queue, lines 48-80
PqQueue(i) ==
    /\ InQueueProcessing(i, "pq_queue")
    /\ Goto(i, "done")
    /\ IF queue = <<>>
       THEN UNCHANGED <<queue, active_route, emitted>>
       ELSE LET next_route == Head(queue)
                cmd == Navigate(next_route.start, next_route.destination)
            IN  /\ emitted' = Append(emitted, Emit(cmd, receivers, i, next_route.id))
                /\ IF SendOk(receivers)
                   THEN /\ active_route' = Some(next_route)
                        /\ queue' = Tail(queue)
                   ELSE UNCHANGED <<queue, active_route>>
    /\ UNCHANGED <<cached_nodes, guards, robot_url, now, current_state, last_state_update, manual_lock,
                   receivers, next_id, last, pre>>

\* the admin's Navigate frame, lines 142-157
AnLock(i) ==
    /\ At(i, "admin_navigate", "an_lock")
    /\ manual_lock' = preempt_lock(Store, Ada)
    /\ Goto(i, "an_active")
    /\ UNCHANGED <<cached_nodes, guards, robot_url, now, current_state, last_state_update, queue, active_route,
                   receivers, next_id, emitted, last, pre>>

\* the route of the frame, lines 174-180
AdminRoute(task) ==
    QueuedRoute(task.route, task.arg[1], task.arg[2], now, Ada.name)

\* the admin's Navigate frame, lines 161-164, and 173-182 when no route
\* was active
AnActive(i) ==
    /\ At(i, "admin_navigate", "an_active")
    /\ ActiveFree(i)
    /\ IF IsSome(active_route)
       THEN /\ active_route' = None
            /\ emitted' = Append(emitted, Emit(Cancel, receivers, i, 0))
            /\ tasks' = [tasks EXCEPT ![i].pc = "an_queue", ![i].active = active_route]
       ELSE /\ active_route' = Some(AdminRoute(tasks[i]))
            /\ emitted' = emitted
            /\ Goto(i, "an_send")
    /\ UNCHANGED <<cached_nodes, guards, robot_url, now, current_state, last_state_update, manual_lock, queue,
                   receivers, next_id, last, pre>>

\* the admin's Navigate frame, lines 168-182
AnQueue(i) ==
    /\ At(i, "admin_navigate", "an_queue")
    /\ queue' = <<Unwrap(tasks[i].active)>> \o queue
    /\ active_route' = Some(AdminRoute(tasks[i]))
    /\ Goto(i, "an_send")
    /\ UNCHANGED <<cached_nodes, guards, robot_url, now, current_state, last_state_update, manual_lock,
                   receivers, next_id, emitted, last, pre>>

\* the admin's Navigate frame, line 185; result is the active route slot as
\* the frame's handling ends
AnSend(i) ==
    /\ At(i, "admin_navigate", "an_send")
    /\ emitted' = Append(emitted,
           Emit(Navigate(tasks[i].arg[1], tasks[i].arg[2]), receivers, i, tasks[i].route))
    /\ tasks' = [tasks EXCEPT ![i].pc = "done", ![i].result = active_route]
    /\ UNCHANGED <<cached_nodes, guards, robot_url, now, current_state, last_state_update, manual_lock, queue,
                   active_route, receivers, next_id, last, pre>>

\* get_routes, line 17
GrActive(i) ==
    /\ At(i, "get_routes", "gr_active")
    /\ ActiveFree(i)
    /\ tasks' = [tasks EXCEPT ![i].pc = "gr_queue", ![i].active = active_route]
    /\ UNCHANGED <<cached_nodes, guards, robot_url, now, current_state, last_state_update, manual_lock, queue,
                   active_route, receivers, next_id, emitted, last, pre>>

\* get_routes, lines 18-27; before keeps the routes that were in the store
\* when the request began and still are
GrQueue(i) ==
    /\ At(i, "get_routes", "gr_queue")
    /\ tasks' = [tasks EXCEPT ![i].pc = "done",
                              ![i].result = get_routes(tasks[i].active, queue),
                              ![i].before = tasks[i].before \cap StoredIds]
    /\ UNCHANGED <<cached_nodes, guards, robot_url, now, current_state, last_state_update, manual_lock, queue,
                   active_route, receivers, next_id, emitted, last, pre>>

Arrivals ==
    \/ \E mode \in DriveModes : StartStatePost(mode)
    \/ \E p \in RouteInputs : StartAddRoute(p)
    \/ \E p \in RouteInputs : StartAdminNavigate(p)
    \/ StartGetRoutes

Steps ==
    \E i \in 1..MaxTasks :
        \/ UsState(i) \/ UsActive(i) \/ ArPush(i)
        \/ PqLock(i) \/ PqConn(i) \/ PqIdle(i) \/ PqActive(i) \/ PqQueue(i)
        \/ AnLock(i) \/ AnActive(i) \/ AnQueue(i) \/ AnSend(i)
        \/ GrActive(i) \/ GrQueue(i)

Parallel == Arrivals \/ Steps

\* the stores the requests arrive at
ParallelRoutes ==
    <<QueuedRoute(MaxRoutes + 1, "A", "B", -20, "Ada"),
      QueuedRoute(MaxRoutes + 2, "B", "C", -30, "Oli"),
      QueuedRoute(MaxRoutes + 3, "A", "B", -10, "Oli")>>

InitParallel ==
    /\ now = 0
    /\ \E tel \in {<<None, None>>, <<Some(RobotState("IDLE")), Some(0)>>} :
           current_state = tel[1] /\ last_state_update = tel[2]
    /\ manual_lock \in {None, Some(LockInfo(2, Oli.name, LOCK_TTL_SECS))}
    /\ queue \in {SubSeq(ParallelRoutes, 1, k) : k \in 0..2}
    /\ active_route \in {None, Some(ParallelRoutes[3])}
    /\ receivers \in 0..MaxReceivers
    /\ next_id = 1
    /\ robot_url = None
    /\ cached_nodes = None
    /\ guards = NoGuards
    /\ tasks = NoTasks
    /\ emitted = <<>>
    /\ last = NoOperation
    /\ pre = NewStore

SpecParallel == InitParallel /\ [][Parallel]_vars

(***************************************************************************)
(* The vocabulary of the properties.                                       *)
(***************************************************************************)
\* a lock slot holds an effective lock at time t
Effective(slot, t) == IsSome(slot) /\ Unwrap(slot).expires_at > t
\* the robot is connected: a telemetry timestamp less than 30 s old
RobotConnected(s, t) ==
    IsSome(s.last_state_update) /\ t - Unwrap(s.last_state_update) < 30
\* the stored telemetry has driveMode = IDLE
TelemetryIdle(s) ==
    IsSome(s.current_state) /\ Unwrap(s.current_state).drive_mode = "IDLE"
\* the dispatch precondition of the store s at time t
DispatchReady(s, t) ==
    /\ s.active_route = None
    /\ ~Effective(s.manual_lock, t)
    /\ RobotConnected(s, t)
    /\ TelemetryIdle(s)
\* the commands of the send calls, in order
Commands(e) == [i \in 1..Len(e) |-> e[i].cmd]
\* the caller of the operation
Caller == CHOOSE u \in Users : u.sub = last.sub
HolderSub(slot) == UuidToString(Unwrap(slot).holder_id)

(***************************************************************************)
(* C1: process_queue moves a route only when activeRoute is None, no       *)
(* effective lock exists, the robot is connected and the telemetry is      *)
(* IDLE; when any of these fails the call leaves the store as it was and   *)
(* makes no send call, whatever the queue holds.                           *)
(***************************************************************************)
C1_DispatchGated ==
    last.op = "process_queue" =>
        /\ (queue # pre.queue \/ active_route # pre.active_route)
               => DispatchReady(pre, now)
        /\ ~DispatchReady(pre, now) => (Store = pre /\ emitted = <<>>)

\* an effective lock alone stops the dispatch of a waiting route
C1_Witness ==
    /\ last.op = "process_queue"
    /\ Effective(pre.manual_lock, now)
    /\ RobotConnected(pre, now) /\ TelemetryIdle(pre)
    /\ pre.active_route = None /\ pre.queue # <<>>
    /\ queue = pre.queue /\ active_route = None /\ emitted = <<>>

(***************************************************************************)
(* C2: when process_queue changes activeRoute from None to Some(r), it     *)
(* made exactly one send call, a delivered Navigate{r.start,               *)
(* r.destination}, r was the head of the queue and the queue is left with  *)
(* the other entries in their order.  In a handler that ends with          *)
(* process_queue, a new active route likewise comes with exactly that one  *)
(* Navigate.                                                               *)
(***************************************************************************)
C2_DispatchOutcome ==
    /\ (last.op = "process_queue" /\ pre.active_route = None /\ IsSome(active_route))
        => LET r == Unwrap(active_route)
           IN  /\ emitted = <<[cmd |-> Navigate(r.start, r.destination), ok |-> TRUE]>>
               /\ pre.queue # <<>>
               /\ r = Head(pre.queue)
               /\ Len(queue) = Len(pre.queue) - 1
               /\ queue = Tail(pre.queue)
    /\ (/\ last.op \in {"add_route", "select_route", "update_robot_state"}
        /\ IsSome(active_route) /\ active_route # pre.active_route)
        => LET r == Unwrap(active_route)
           IN  emitted = <<[cmd |-> Navigate(r.start, r.destination), ok |-> TRUE]>>

\* a dispatch from a queue of two: the second entry stays behind
C2_Witness ==
    /\ last.op = "process_queue"
    /\ pre.active_route = None /\ IsSome(active_route)
    /\ Len(pre.queue) = 2
    /\ queue = <<pre.queue[2]>>
    /\ Len(emitted) = 1

(***************************************************************************)
(* C3: an expired lock that is still stored does not block the dispatch:   *)
(* with the robot connected and IDLE, no active route, a receiver on the   *)
(* bus and a non-empty queue, one call of process_queue pops the head,     *)
(* makes it the active route and delivers its Navigate.                    *)
(***************************************************************************)
C3_ExpiredLockDispatches ==
    (/\ last.op = "process_queue"
     /\ IsSome(pre.manual_lock) /\ Unwrap(pre.manual_lock).expires_at < now
     /\ RobotConnected(pre, now) /\ TelemetryIdle(pre)
     /\ pre.active_route = None /\ pre.queue # <<>>
     /\ receivers > 0)
    => /\ queue = Tail(pre.queue)
       /\ active_route = Some(Head(pre.queue))
       /\ emitted = <<[cmd |-> Navigate(Head(pre.queue).start,
                                       Head(pre.queue).destination),
                       ok |-> TRUE]>>
       /\ manual_lock = pre.manual_lock

C3_Witness ==
    /\ last.op = "process_queue"
    /\ IsSome(pre.manual_lock) /\ Unwrap(pre.manual_lock).expires_at < now
    /\ manual_lock = pre.manual_lock
    /\ pre.queue # <<>> /\ pre.active_route = None
    /\ active_route = Some(Head(pre.queue))
    /\ Len(emitted) = 1 /\ emitted[1].ok

(***************************************************************************)
(* C4: when the send of the dispatch fails, the popped route is back at    *)
(* the head of the queue, activeRoute stays None, the queue is what it     *)
(* was before the dispatch, and the operation that triggered the dispatch  *)
(* still answers success.                                                  *)
(***************************************************************************)
SendFailed == emitted # <<>> /\ \E i \in 1..Len(emitted) : ~emitted[i].ok

C4_SendFailureRequeues ==
    /\ (last.op = "process_queue" /\ SendFailed)
        => (Store = pre /\ pre.queue # <<>> /\ active_route = None)
    /\ (last.op = "update_robot_state" /\ SendFailed)
        => /\ queue = pre.queue /\ queue # <<>> /\ active_route = None
           /\ last.status = 200 /\ last.body = "success"
    /\ (last.op \in {"add_route", "select_route"} /\ SendFailed)
        => /\ Len(queue) = Len(pre.queue) + 1
           /\ SubSeq(queue, 1, Len(pre.queue)) = pre.queue
           /\ active_route = None
           /\ last.status \in {200, 201} /\ last.body # "error"

\* a failed dispatch of a queue of two leaves both entries in place
C4_Witness ==
    /\ last.op = "process_queue"
    /\ SendFailed
    /\ Len(pre.queue) = 2 /\ queue = pre.queue /\ active_route = None

(***************************************************************************)
(* C5: an Admin's Navigate{C,D} frame on the manual-drive socket while a   *)
(* route p is active makes exactly two send calls, Cancel and then         *)
(* Navigate{C,D}; afterwards p, unmodified, is the head of the queue, the  *)
(* other entries follow in their prior order, and the active route has     *)
(* start C and destination D.                                              *)
(***************************************************************************)
AdminNavigateFrame ==
    /\ last.op = "manual_frame"
    /\ is_admin(Caller.role)
    /\ last.arg[1].command = "NAVIGATE"

C5_AdminPreemption ==
    (AdminNavigateFrame /\ IsSome(pre.active_route))
    => /\ Commands(emitted) = <<Cancel, last.arg[1]>>
       /\ queue = <<Unwrap(pre.active_route)>> \o pre.queue
       /\ IsSome(active_route)
       /\ Unwrap(active_route).start = last.arg[1].start
       /\ Unwrap(active_route).destination = last.arg[1].destination

\* the preempted route goes in front of two waiting entries
C5_Witness ==
    /\ AdminNavigateFrame
    /\ IsSome(pre.active_route)
    /\ Len(pre.queue) = 2
    /\ queue = <<Unwrap(pre.active_route), pre.queue[1], pre.queue[2]>>
    /\ Commands(emitted) = <<Cancel, Navigate("C", "D")>>
    /\ Unwrap(active_route).start = "C"

(***************************************************************************)
(* C6: after an Admin's Navigate frame on the manual-drive socket, the     *)
(* lock slot holds no lock of any other user, and a lock of that Admin     *)
(* is left as it was.                                                      *)
(***************************************************************************)
C6_AdminNavigateRevokes ==
    AdminNavigateFrame
    => /\ IsSome(manual_lock) => HolderSub(manual_lock) = last.sub
       /\ (IsSome(pre.manual_lock) /\ HolderSub(pre.manual_lock) = last.sub)
              => manual_lock = pre.manual_lock
       /\ pre.manual_lock = None => manual_lock = None

\* an operator's effective lock is gone after the admin's Navigate
C6_Witness ==
    /\ AdminNavigateFrame
    /\ Effective(pre.manual_lock, now)
    /\ HolderSub(pre.manual_lock) # last.sub
    /\ manual_lock = None

(***************************************************************************)
(* C7: POST /drive/lock by U (Operator or Admin) while another user H      *)
(* holds an effective lock.  As claimed: a non-Admin U gets a domain error *)
(* naming H and the slot is unchanged; an Admin U succeeds and the slot    *)
(* holds U's lock.                                                         *)
(***************************************************************************)
AcquireAgainstHolder ==
    /\ last.op = "acquire_lock"
    /\ can_operate(Caller.role)
    /\ Effective(pre.manual_lock, now)
    /\ HolderSub(pre.manual_lock) # last.sub

NamesHolder ==
    last.message = <<"Lock held by ", Unwrap(pre.manual_lock).holder_name>>

AdminTookLock ==
    /\ last.status = 200 /\ last.body = "success"
    /\ manual_lock = Some(LockInfo(Unwrap(UuidParseStr(last.sub)), Caller.name,
                                   now + 30))

C7_Original ==
    AcquireAgainstHolder
    => IF is_admin(Caller.role)
       THEN AdminTookLock
       ELSE /\ last.status = 200 /\ last.body = "error" /\ NamesHolder
            /\ manual_lock = pre.manual_lock

(***************************************************************************)
(* C7, amended: a non-Admin U gets a domain error and the slot is          *)
(* unchanged; the error names H when no route is active, and is the        *)
(* "automated route is active" error when one is; an Admin U succeeds and  *)
(* the slot holds U's lock.                                                *)
(***************************************************************************)
C7_Amended ==
    AcquireAgainstHolder
    => IF is_admin(Caller.role)
       THEN AdminTookLock
       ELSE /\ last.status = 200 /\ last.body = "error"
            /\ manual_lock = pre.manual_lock
            /\ IF pre.active_route = None
               THEN NamesHolder
               ELSE last.message =
                     <<"Cannot acquire lock while automated route is active">>

\* an operator is refused with the name of the operator who holds the lock
C7_Witness ==
    /\ AcquireAgainstHolder
    /\ Caller.role = OPERATOR
    /\ pre.active_route = None
    /\ NamesHolder
    /\ manual_lock = pre.manual_lock
    /\ Unwrap(pre.manual_lock).holder_name = "Oli"

(***************************************************************************)
(* C8: POST /drive/lock answers 403 to a caller below Operator, and a      *)
(* domain error to a non-Admin caller while a route is active, also when   *)
(* the caller holds the stored lock; the lock slot is unchanged in both    *)
(* cases.                                                                  *)
(***************************************************************************)
C8_AcquireRefusals ==
    /\ (last.op = "acquire_lock" /\ ~can_operate(Caller.role))
        => (last.status = 403 /\ manual_lock = pre.manual_lock)
    /\ (/\ last.op = "acquire_lock"
        /\ can_operate(Caller.role) /\ ~is_admin(Caller.role)
        /\ IsSome(pre.active_route))
        => /\ last.status = 200 /\ last.body = "error"
           /\ last.message =
                 <<"Cannot acquire lock while automated route is active">>
           /\ manual_lock = pre.manual_lock

\* the holder's renewal is refused while a route is active
C8_Witness ==
    /\ last.op = "acquire_lock"
    /\ Caller.role = OPERATOR
    /\ IsSome(pre.active_route)
    /\ Effective(pre.manual_lock, now)
    /\ HolderSub(pre.manual_lock) = last.sub
    /\ last.body = "error"
    /\ manual_lock = pre.manual_lock

(***************************************************************************)
(* C9: with an expired lock of another user stored and no active route,    *)
(* an Operator's POST /drive/lock succeeds and the slot then holds the     *)
(* caller's lock (id and name), expiring 30 s after the acquisition.       *)
(***************************************************************************)
C9_ExpiredLockReplaced ==
    (/\ last.op = "acquire_lock"
     /\ Caller.role = OPERATOR
     /\ IsSome(pre.manual_lock) /\ ~Effective(pre.manual_lock, now)
     /\ HolderSub(pre.manual_lock) # last.sub
     /\ pre.active_route = None)
    => /\ last.status = 200 /\ last.body = "success"
       /\ IsSome(manual_lock)
       /\ HolderSub(manual_lock) = last.sub
       /\ Unwrap(manual_lock).holder_name = Caller.name
       /\ Unwrap(manual_lock).expires_at = now + 30

C9_Witness ==
    /\ last.op = "acquire_lock"
    /\ Caller.role = OPERATOR
    /\ IsSome(pre.manual_lock) /\ Unwrap(pre.manual_lock).expires_at <= now
    /\ HolderSub(pre.manual_lock) # last.sub
    /\ last.body = "success"
    /\ HolderSub(manual_lock) = last.sub
    /\ Unwrap(manual_lock).expires_at = now + 30

(***************************************************************************)
(* C10: lock renewal.  As claimed: when the holder of the lock acquires    *)
(* again at a later time, the request succeeds, the holder is unchanged    *)
(* and the stored expiresAt is strictly greater than before.               *)
(***************************************************************************)
\* the caller holds an effective lock that was acquired before now
Renewal ==
    /\ last.op = "acquire_lock"
    /\ Effective(pre.manual_lock, now)
    /\ HolderSub(pre.manual_lock) = last.sub
    /\ now > Unwrap(pre.manual_lock).expires_at - 30

Renewed ==
    /\ last.status = 200 /\ last.body = "success"
    /\ IsSome(manual_lock)
    /\ Unwrap(manual_lock).holder_id = Unwrap(pre.manual_lock).holder_id
    /\ Unwrap(manual_lock).holder_name = Unwrap(pre.manual_lock).holder_name
    /\ Unwrap(manual_lock).expires_at > Unwrap(pre.manual_lock).expires_at

C11_ReleaseIffEffectiveHolder ==
    (last.op = "release_lock" /\ can_operate(Caller.role))
    => IF Effective(pre.manual_lock, now) /\ HolderSub(pre.manual_lock) = last.sub
       THEN last.body = "success" /\ manual_lock = None
       ELSE last.body = "error"

(***************************************************************************)
(* C12: when a lock of user X is stored and a different user Y, an         *)
(* Operator, calls DELETE /drive/lock, the response is the domain error    *)
(* and the slot still holds X's lock with the same expiresAt.              *)
(***************************************************************************)
C12_NonHolderCannotRelease ==
    (/\ last.op = "release_lock"
     /\ Caller.role = OPERATOR
     /\ IsSome(pre.manual_lock)
     /\ HolderSub(pre.manual_lock) # last.sub)
    => /\ last.status = 200 /\ last.body = "error"
       /\ manual_lock = pre.manual_lock

C12_Witness ==
    /\ last.op = "release_lock"
    /\ Caller.role = OPERATOR
    /\ Effective(pre.manual_lock, now)
    /\ HolderSub(pre.manual_lock) # last.sub
    /\ Unwrap(pre.manual_lock).holder_name = "Oli"
    /\ last.body = "error"
    /\ manual_lock = pre.manual_lock

(***************************************************************************)
(* C13: GET /status reports manualLockHolderName = null whenever the       *)
(* stored lock is absent or not effective (expiresAt <= now), and the      *)
(* holder's name exactly when the stored lock is effective.                *)
(***************************************************************************)
C13_StatusHidesExpiredLock ==
    last.op = "get_status"
    => last.message = IF Effective(pre.manual_lock, now)
                      THEN Some(Unwrap(pre.manual_lock).holder_name)
                      ELSE None

(***************************************************************************)
(* C14: an Operator's DriveCommand frame on the manual-drive socket is     *)
(* sent to the command bus only if, when the frame is processed, that      *)
(* Operator holds an effective lock (holder = sub and expiresAt > now).    *)
(***************************************************************************)
FrameCommand == last.arg[1]

C14_OperatorNeedsEffectiveLock ==
    (/\ last.op = "manual_frame"
     /\ Caller.role = OPERATOR
     /\ FrameCommand.command = "DRIVE_COMMAND"
     /\ emitted # <<>>)
    => /\ Effective(pre.manual_lock, now)
       /\ HolderSub(pre.manual_lock) = last.sub

(***************************************************************************)
(* C15: role allow-list of the manual-drive socket.  A frame is sent to    *)
(* the command bus only if the sender's role allows its variant: nothing   *)
(* from a Viewer; from an Operator never Navigate, Cancel, Led, AudioBeep  *)
(* or AudioVolume; every variant from an Admin.  A dropped frame makes no  *)
(* send call and leaves lock, queue and active route unchanged.            *)
(***************************************************************************)
FrameForwarded ==
    \E i \in 1..Len(emitted) : emitted[i].cmd = FrameCommand

RoleAllows(role, cmd) ==
    \/ role = ADMIN /\ cmd.command # "MALFORMED"
    \/ role = OPERATOR /\ cmd.command = "DRIVE_COMMAND"

C15_RoleAllowList ==
    last.op = "manual_frame"
    => /\ FrameForwarded => RoleAllows(Caller.role, FrameCommand)
       /\ (Caller.role = ADMIN /\ FrameCommand.command # "MALFORMED")
              => FrameForwarded
       /\ ~FrameForwarded
              => /\ emitted = <<>>
                 /\ manual_lock = pre.manual_lock
                 /\ queue = pre.queue
                 /\ active_route = pre.active_route

\* the holder of the lock, an Operator, sends Led: the frame is dropped
C15_Witness ==
    /\ last.op = "manual_frame"
    /\ Caller.role = OPERATOR
    /\ FrameCommand.command = "LED"
    /\ Effective(pre.manual_lock, now)
    /\ HolderSub(pre.manual_lock) = last.sub
    /\ emitted = <<>>
    /\ manual_lock = pre.manual_lock

(***************************************************************************)
(* C16: clear_expired_lock clears the stored lock and returns true if and  *)
(* only if a lock is stored and it is not effective (expiresAt <= now);    *)
(* otherwise it returns false and leaves the slot unchanged.  No other     *)
(* slot is written.                                                        *)
(***************************************************************************)
C16_ClearExpiredLock ==
    last.op = "clear_expired_lock"
    => /\ IF IsSome(pre.manual_lock) /\ ~Effective(pre.manual_lock, now)
          THEN last.body = "true" /\ manual_lock = None
          ELSE last.body = "false" /\ manual_lock = pre.manual_lock
       /\ Store = [pre EXCEPT !.manual_lock = manual_lock]

\* a lock that expires exactly now is cleared
C16_Witness ==
    /\ last.op = "clear_expired_lock"
    /\ IsSome(pre.manual_lock)
    /\ Unwrap(pre.manual_lock).expires_at = now
    /\ last.body = "true"
    /\ manual_lock = None

(***************************************************************************)
(* C17: route completion.  As claimed: after each accepted POST            *)
(* /table/state that carries driveMode = IDLE while a route is active,     *)
(* activeRoute is None.                                                    *)
(***************************************************************************)
IdlePostCompletes ==
    /\ last.op = "update_robot_state"
    /\ last.status = 200
    /\ last.arg = <<"IDLE">>
    /\ IsSome(pre.active_route)

C17_Original ==
    IdlePostCompletes => active_route = None

(***************************************************************************)
(* C17, amended: after such a post the route that was active is no longer  *)
(* active; activeRoute is None, unless the process_queue call of the same  *)
(* request dispatched the head of the queue, which is then the active      *)
(* route and was sent as a Navigate.                                       *)
(***************************************************************************)
C17_Amended ==
    IdlePostCompletes
    => /\ active_route # pre.active_route
       /\ \/ active_route = None /\ queue = pre.queue
          \/ /\ pre.queue # <<>>
             /\ DispatchReady([pre EXCEPT !.active_route = None,
                                          !.current_state = current_state], now)
             /\ active_route = Some(Head(pre.queue))
             /\ queue = Tail(pre.queue)
             /\ Commands(emitted) =
                   <<Navigate(Head(pre.queue).start, Head(pre.queue).destination)>>

\* the completion is followed by the dispatch of the next route
C17_Witness ==
    /\ IdlePostCompletes
    /\ pre.queue # <<>>
    /\ active_route = Some(Head(pre.queue))

(***************************************************************************)
(* C18: an accepted POST /table/state whose driveMode is not IDLE while a  *)
(* route is active leaves the active route and the queue unchanged and     *)
(* makes no send call.                                                     *)
(***************************************************************************)
C18_DrivingPostKeepsRoute ==
    (/\ last.op = "update_robot_state"
     /\ last.status = 200
     /\ last.arg # <<"IDLE">>
     /\ IsSome(pre.active_route))
    => /\ active_route = pre.active_route
       /\ queue = pre.queue
       /\ emitted = <<>>

\* nothing but the drive mode and the active route stands against a dispatch
C18_Witness ==
    /\ last.op = "update_robot_state"
    /\ last.status = 200
    /\ last.arg = <<"NAVIGATING">>
    /\ IsSome(pre.active_route)
    /\ pre.queue # <<>>
    /\ RobotConnected(pre, now)
    /\ ~Effective(pre.manual_lock, now)
    /\ receivers > 0
    /\ active_route = pre.active_route

(***************************************************************************)
(* C19: every accepted POST /table/state sets lastUpdate to the time of    *)
(* the post, so the robot is connected immediately after it.               *)
(***************************************************************************)
C19_PostStampsLastUpdate ==
    (last.op = "update_robot_state" /\ last.status = 200)
    => /\ last_state_update = Some(now)
       /\ RobotConnected(Store, now)

(***************************************************************************)
(* C20: a POST /table/state with a missing or wrong X-Api-Key returns 401  *)
(* and leaves the whole store unchanged; no dispatch is attempted.         *)
(***************************************************************************)
C20_WrongKeyRejected ==
    (last.op = "update_robot_state" /\ last.status # 200)
    => /\ last.status = 401
       /\ Store = pre
       /\ emitted = <<>>

\* the rejected post would have completed a route and dispatched the next
C20_Witness ==
    /\ last.op = "update_robot_state"
    /\ last.status = 401
    /\ last.arg = <<"IDLE">>
    /\ IsSome(pre.active_route)
    /\ pre.queue # <<>>
    /\ RobotConnected(pre, now)
    /\ ~Effective(pre.manual_lock, now)
    /\ receivers > 0
    /\ Store = pre


(***************************************************************************)
(* C23: POST /routes, DELETE /routes/{id} and POST /routes/optimize are    *)
(* for the Admin: the request of an Operator or a Viewer is answered 403,  *)
(* leaves the queue and the active route as they were and makes no send    *)
(* call.                                                                   *)
(***************************************************************************)
QueueManagement == {"add_route", "delete_route", "optimize_routes"}

C23_AdminOnlyQueueManagement ==
    (last.op \in QueueManagement /\ Caller.role \in {OPERATOR, VIEWER})
    => /\ last.status = 403
       /\ queue = pre.queue
       /\ active_route = pre.active_route
       /\ emitted = <<>>

\* an Operator asks for the optimization of a queue the solver would reorder
C23_Witness ==
    /\ last.op = "optimize_routes"
    /\ Caller = Oli
    /\ last.status = 403
    /\ solve_atsp_path(pre.queue) # pre.queue
    /\ queue = pre.queue

(***************************************************************************)
(* C24: DELETE /routes/{id} by an Admin removes the queue entry with that  *)
(* id and no other, answers 204 and keeps the order of the rest; without   *)
(* such an entry it answers 404 and leaves the queue as it was.  The active*)
(* route is never removed or altered, not even when the id is its own.     *)
(***************************************************************************)
AdminDelete == last.op = "delete_route" /\ is_admin(Caller.role)

Without(q, id) == SelectSeq(q, LAMBDA r : r.id # id)

C24_DeleteById ==
    AdminDelete
    => /\ active_route = pre.active_route
       /\ emitted = <<>>
       /\ IF \E i \in 1..Len(pre.queue) : pre.queue[i].id = last.arg[1]
          THEN /\ last.status = 204
               /\ queue = Without(pre.queue, last.arg[1])
               /\ Len(queue) = Len(pre.queue) - 1
          ELSE /\ last.status = 404
               /\ queue = pre.queue

\* the id is the active route's, and two other routes wait: 404
C24_Witness ==
    /\ AdminDelete
    /\ IsSome(pre.active_route)
    /\ Unwrap(pre.active_route).id = last.arg[1]
    /\ Len(pre.queue) = 2
    /\ last.status = 404
    /\ Store = pre

(***************************************************************************)
(* C25: POST /routes/select below Operator is answered 403 with the queue  *)
(* unchanged.  From an Operator or an Admin it is rejected with the domain *)
(* error, the store unchanged and nothing sent, whenever an effective lock *)
(* exists, whoever holds it; otherwise one route with the requested start  *)
(* and destination and the caller's display name goes to the back of the   *)
(* queue and process_queue runs on the result.                             *)
(***************************************************************************)
SelectedRoutes ==
    { QueuedRoute(id, last.arg[1], last.arg[2], now, Caller.name) : id \in 1..MaxRoutes }

C25_SelectRoute ==
    last.op = "select_route"
    => IF ~can_operate(Caller.role)
       THEN last.status = 403 /\ Store = pre /\ emitted = <<>>
       ELSE IF Effective(pre.manual_lock, now)
       THEN /\ last.body = "error"
            /\ last.message = <<"Robot is manually locked">>
            /\ Store = pre
            /\ emitted = <<>>
       ELSE /\ last.body = "success"
            /\ \E route \in SelectedRoutes :
                  /\ \A i \in 1..Len(pre.queue) : pre.queue[i].id # route.id
                  /\ Store = process_queue(push_back(pre, route), now, receivers).store
                  /\ emitted = process_queue(push_back(pre, route), now, receivers).emitted

\* the caller holds the effective lock themself, and the robot would take a route
C25_Witness ==
    /\ last.op = "select_route"
    /\ Caller = Oli
    /\ Effective(pre.manual_lock, now)
    /\ HolderSub(pre.manual_lock) = Oli.sub
    /\ pre.active_route = None
    /\ RobotConnected(pre, now)
    /\ TelemetryIdle(pre)
    /\ last.body = "error"
    /\ Store = pre


(***************************************************************************)
(* C26: with the cost of optimize_routes (0 when the destination of a      *)
(* route is the start of the next, 1 otherwise) the optimization by an     *)
(* Admin never makes the queue worse: whatever the queue holds and in      *)
(* whatever order, the total transition cost of the queue after the        *)
(* request is at most the cost before it.                                  *)
(***************************************************************************)
RECURSIVE total_cost(_)
total_cost(q) ==
    IF Len(q) <= 1 THEN 0
    ELSE transition_cost(q[1], q[2]) + total_cost(Tail(q))

AdminOptimize == last.op = "optimize_routes" /\ is_admin(Caller.role)

C26_OptimizeNeverWorse ==
    AdminOptimize => total_cost(queue) <= total_cost(pre.queue)


(***************************************************************************)
(* C28: an operation that makes the dispatch eligible runs process_queue   *)
(* itself.  When the holder releases the effective lock while the robot is *)
(* connected, the telemetry is IDLE, no route is active, the queue is not  *)
(* empty and the robot socket is subscribed, the head of the queue is      *)
(* dispatched by that request: it is the active route, it has left the     *)
(* queue, and its Navigate was sent.                                       *)
(***************************************************************************)
HolderReleased ==
    /\ last.op = "release_lock"
    /\ last.body = "success"
    /\ Effective(pre.manual_lock, now)
    /\ HolderSub(pre.manual_lock) = last.sub

ReleaseMakesEligible ==
    /\ HolderReleased
    /\ RobotConnected(pre, now)
    /\ TelemetryIdle(pre)
    /\ pre.active_route = None
    /\ pre.queue # <<>>
    /\ receivers > 0

C28_ReleaseDispatches ==
    ReleaseMakesEligible
    => /\ manual_lock = None
       /\ active_route = Some(Head(pre.queue))
       /\ queue = Tail(pre.queue)
       /\ Commands(emitted) =
              <<Navigate(Head(pre.queue).start, Head(pre.queue).destination)>>


(***************************************************************************)
(* C21: POST /table/register is authenticated by X-Api-Key: a request with *)
(* a missing or wrong key is answered 401 and leaves the stored robot URL  *)
(* as it was, so that only a request with the right key sets or overwrites *)
(* the URL.                                                                *)
(***************************************************************************)
RegisterWithoutKey == last.op = "register_robot" /\ ~last.arg.key_ok

C21_RegisterNeedsKey ==
    RegisterWithoutKey
    => /\ last.status = 401
       /\ robot_url = pre.robot_url


(***************************************************************************)
(* C27: a sweeper runs every 5 s, calls clear_expired_lock and, when that  *)
(* returns true, process_queue; hence, with no client request and no state *)
(* post, a stored lock that has expired is eventually removed from the     *)
(* slot.                                                                   *)
(***************************************************************************)
ExpiredLockStored ==
    IsSome(manual_lock) /\ Unwrap(manual_lock).expires_at <= now

C27_SweeperClearsExpiredLock == ExpiredLockStored ~> (manual_lock = None)


(***************************************************************************)
(* C29: the dispatch has one winner.  However many process_queue calls     *)
(* run at once (from state posts and enqueues), a call dispatches only     *)
(* into an empty slot: the step that sends a route's Navigate finds        *)
(* activeRoute None, takes the head of the queue out of the queue and      *)
(* makes it the active route, so that two calls never both pop for the     *)
(* same empty slot; and a route is not sent twice by process_queue unless  *)
(* a Cancel came between (the preemption put it back into the queue).      *)
(***************************************************************************)
ByProcessQueue(e) ==
    /\ e.cmd.command = "NAVIGATE"
    /\ tasks[e.by].op # "admin_navigate"

DispatchStep ==
    /\ Len(emitted') = Len(emitted) + 1
    /\ emitted'[Len(emitted')].ok
    /\ ByProcessQueue(emitted'[Len(emitted')])

DispatchIntoEmptySlot ==
    DispatchStep
    => /\ active_route = None
       /\ queue # <<>>
       /\ emitted'[Len(emitted')].route = Head(queue).id
       /\ active_route' = Some(Head(queue))
       /\ queue' = Tail(queue)

DispatchedOnce ==
    \A k, l \in 1..Len(emitted) :
        (/\ k < l
         /\ emitted[k].ok /\ ByProcessQueue(emitted[k])
         /\ emitted[l].ok /\ ByProcessQueue(emitted[l])
         /\ emitted[k].route = emitted[l].route)
        => \E c \in (k + 1)..(l - 1) : emitted[c].cmd = Cancel

C29_SingleWinner == [][DispatchIntoEmptySlot]_vars /\ []DispatchedOnce

\* two process_queue calls at the empty slot: one has the guard and is about
\* to pop, the other waits for the guard; a third has dispatched before
C29_Witness ==
    \E i, j \in 1..Len(tasks) :
        /\ i # j
        /\ tasks[i].pc = "pq_queue"
        /\ tasks[j].pc = "pq_active"
        /\ active_route = None
        /\ queue # <<>>
        /\ receivers > 0


(***************************************************************************)
(* C22: GET /routes answers with the active route, if any, and then the    *)
(* queue in its order, as the store holds them at one instant, also while  *)
(* a dispatch or an admin's preemption is running: no route is in the      *)
(* response twice, and no route that was in the queue or the active slot   *)
(* during the whole request is missing.                                    *)
(***************************************************************************)
Answered(i) == tasks[i].op = "get_routes" /\ tasks[i].pc = "done"

ResponseIds(i) == {tasks[i].result[k].id : k \in 1..Len(tasks[i].result)}

NoRouteTwice(i) ==
    \A k, l \in 1..Len(tasks[i].result) :
        k # l => tasks[i].result[k].id # tasks[i].result[l].id

NoRouteMissing(i) == tasks[i].before \subseteq ResponseIds(i)

C22_RoutesSnapshot ==
    \A i \in 1..Len(tasks) :
        Answered(i) => NoRouteTwice(i) /\ NoRouteMissing(i)

C22_NoRouteTwice == \A i \in 1..Len(tasks) : Answered(i) => NoRouteTwice(i)

C22_NoRouteMissing == \A i \in 1..Len(tasks) : Answered(i) => NoRouteMissing(i)

(***************************************************************************)
(* C30: the admin's preemption is one atomic step with respect to the      *)
(* dispatch and the telemetry intake: between the Cancel of the preemption *)
(* and the admin's Navigate no other Navigate is sent, and when the        *)
(* handling of the frame has ended the active route is the admin's route.  *)
(***************************************************************************)
\* the frame of task i has been handled; the other requests were state
\* posts and enqueues
Preempted(i) ==
    /\ tasks[i].op = "admin_navigate" /\ tasks[i].pc = "done"
    /\ \A j \in 1..Len(tasks) :
          j # i => tasks[j].op \in {"update_robot_state", "add_route"}

NothingBetween(i) ==
    \A c, n \in 1..Len(emitted) :
        (/\ c < n
         /\ emitted[c].by = i /\ emitted[c].cmd = Cancel
         /\ emitted[n].by = i /\ emitted[n].cmd.command = "NAVIGATE")
        => \A k \in (c + 1)..(n - 1) : ~(emitted[k].ok /\ ByProcessQueue(emitted[k]))

EndsWithAdminRoute(i) ==
    /\ IsSome(tasks[i].result)
    /\ Unwrap(tasks[i].result).id = tasks[i].route

C30_PreemptionAtomic ==
    \A i \in 1..Len(tasks) :
        Preempted(i) => NothingBetween(i) /\ EndsWithAdminRoute(i)

C30_NothingBetween == \A i \in 1..Len(tasks) : Preempted(i) => NothingBetween(i)

C30_EndsWithAdminRoute ==
    \A i \in 1..Len(tasks) : Preempted(i) => EndsWithAdminRoute(i)


(***************************************************************************)
(* C32: a send on the command bus does not block, and with no subscriber   *)
(* it counts as a success: when process_queue reaches its send while no    *)
(* robot socket is subscribed, the dispatch is completed (the head of the  *)
(* queue becomes the active route).                                        *)
(***************************************************************************)
DispatchUnsubscribed ==
    /\ last.op = "process_queue"
    /\ DispatchReady(pre, now)
    /\ pre.queue # <<>>
    /\ receivers = 0

C32_Original ==
    DispatchUnsubscribed
    => /\ active_route = Some(Head(pre.queue))
       /\ queue = Tail(pre.queue)

(***************************************************************************)
(* C32, amended: the send does not block, and with no subscriber it        *)
(* returns an error, which process_queue treats as a failure: the one send *)
(* call is made and fails, the route is back at the head of the queue and  *)
(* no route is active.                                                     *)
(***************************************************************************)
C32_Amended ==
    DispatchUnsubscribed
    => /\ Len(emitted) = 1
       /\ ~emitted[1].ok
       /\ emitted[1].cmd = Navigate(Head(pre.queue).start, Head(pre.queue).destination)
       /\ active_route = None
       /\ queue = pre.queue

\* two routes wait and the robot is ready, but no socket is subscribed
C32_Witness ==
    /\ DispatchUnsubscribed
    /\ Len(pre.queue) = 2
    /\ Len(emitted) = 1
    /\ Store = pre


(***************************************************************************)
(* C31: whenever a route is active, the most recent Navigate sent on the   *)
(* command bus carried the start and the destination of that route.  It is *)
(* stated for the states in which no request is in flight, and for runs in *)
(* which a Navigate was sent.                                              *)
(***************************************************************************)
Quiet == \A i \in 1..Len(tasks) : tasks[i].pc = "done"

\* the Navigate commands that went out to a subscriber, in order
Navigates == SelectSeq(emitted, LAMBDA e : e.cmd.command = "NAVIGATE" /\ e.ok)

C31_ActiveIsLastNavigate ==
    (Quiet /\ IsSome(active_route) /\ Navigates # <<>>)
    => /\ Navigates[Len(Navigates)].cmd.start = Unwrap(active_route).start
       /\ Navigates[Len(Navigates)].cmd.destination = Unwrap(active_route).destination


(***************************************************************************)
(* C33: the completion is detected on a transition.  An accepted state     *)
(* post with driveMode IDLE that finds the stored telemetry already IDLE   *)
(* (the robot has not reported another mode since) while a route is active *)
(* does not clear the route, and no queued route is dispatched by it.      *)
(***************************************************************************)
IdleRepeated ==
    /\ last.op = "update_robot_state"
    /\ last.status = 200
    /\ last.arg[1] = "IDLE"
    /\ TelemetryIdle(pre)
    /\ IsSome(pre.active_route)

Reordering ==
    \/ last.op \in {"none", "delete_route", "optimize_routes"}
    \/ AdminNavigateFrame

Enqueue == last.op \in {"add_route", "select_route"}

\* the route the operation made active, if any, followed by the queue
Line ==
    (IF IsSome(active_route) /\ active_route # pre.active_route
     THEN active_route ELSE <<>>) \o queue

Waited(r) == \E k \in 1..Len(pre.queue) : pre.queue[k].id = r.id

\* a route that did not wait is in front of one that did
InsertedInFront ==
    \E k, l \in 1..Len(queue) :
        k < l /\ ~Waited(queue[k]) /\ Waited(queue[l])

C34_Fifo ==
    /\ ~Reordering
       => \/ Line = pre.queue
          \/ /\ Enqueue
             /\ Len(Line) = Len(pre.queue) + 1
             /\ SubSeq(Line, 1, Len(pre.queue)) = pre.queue
    /\ (last.op # "none" /\ InsertedInFront) => AdminNavigateFrame

\* an Operator selects a route while two wait and the robot is ready: the
\* head is dispatched, the new route is behind the second
C34_Witness ==
    /\ last.op = "select_route"
    /\ Len(pre.queue) = 2
    /\ active_route = Some(pre.queue[1])
    /\ Len(queue) = 2
    /\ queue[1] = pre.queue[2]
    /\ queue[2].added_by = Oli.name


(***************************************************************************)
(* The handlers in parallel, with the locks of the slots.  Each field of   *)
(* SharedRobotState is an RwLock of the runtime: the requests for a slot   *)
(* wait in a first-in first-out line, a read guard is given while no write *)
(* guard is out, a write guard while no guard is out, and never past a     *)
(* request that waits in front.  A step of a task is the code from the     *)
(* grant of one guard to the request for the next one; a guard bears the   *)
(* point of the handler that took it.  The clock stands still.             *)
(***************************************************************************)
MaxLockTasks == 3
MaxRunning == 2

Guard(i, mode, at) == [task |-> i, mode |-> mode, at |-> at]

\* slot.read().await or slot.write().await is called: the request waits
request(g, slot, i, mode, at) ==
    [g EXCEPT ![slot].waiting = Append(@, Guard(i, mode, at))]

\* the request of task i is the first in line and the guards out admit it
granted(g, slot, i) ==
    /\ g[slot].waiting # <<>>
    /\ Head(g[slot].waiting).task = i
    /\ IF Head(g[slot].waiting).mode = "read"
       THEN \A h \in g[slot].held : h.mode = "read"
       ELSE g[slot].held = {}

\* the first request in line gets its guard
grant(g, slot) ==
    [g EXCEPT ![slot] = [held |-> @.held \cup {Head(@.waiting)},
                         waiting |-> Tail(@.waiting)]]

\* the guard taken at a point of the handler goes out of scope
drop(g, slot, i, at) ==
    [g EXCEPT ![slot].held = {h \in @ : ~(h.task = i /\ h.at = at)}]

\* the handler returns: every guard it still holds goes out of scope
drop_all(g, i) ==
    [s \in Slots |-> [g[s] EXCEPT !.held = {h \in @ : h.task # i}]]

Running == Cardinality({i \in 1..Len(tasks) : tasks[i].pc # "done"})

\* a request arrives and its handler asks for its first guard
Arrive(task, slot, mode) ==
    /\ Len(tasks) < MaxLockTasks
    /\ Running < MaxRunning
    /\ tasks' = Append(tasks, task)
    /\ guards' = request(guards, slot, Len(tasks) + 1, mode, task.pc)

\* the task goes on to the next point with the guards g
Move(i, pc, g) ==
    /\ tasks' = [tasks EXCEPT ![i].pc = pc]
    /\ guards' = g

\* the handler returns with a result
Return(i, result, g) ==
    /\ tasks' = [tasks EXCEPT ![i].pc = "done", ![i].result = result]
    /\ guards' = drop_all(g, i)

\* the callers of the guarded handlers may operate the robot
LockCallers == {Ada, Oli}

\* GET /status, lines 24-68: robot_state and lock_state live to the end
StartGetStatus ==
    /\ Arrive(Task("get_status", "gs_state", <<>>, 0, {}), "current_state", "read")
    /\ UNCHANGED <<cached_nodes, robot_url, now, current_state, last_state_update,
                   manual_lock, queue, active_route, receivers, next_id, emitted,
                   last, pre>>

GsState(i) ==
    /\ At(i, "get_status", "gs_state")
    /\ granted(guards, "current_state", i)
    /\ Move(i, "gs_lock",
            request(grant(guards, "current_state"), "manual_lock", i, "read", "gs_lock"))
    /\ UNCHANGED <<cached_nodes, robot_url, now, current_state, last_state_update,
                   manual_lock, queue, active_route, receivers, next_id, emitted,
                   last, pre>>

GsLock(i) ==
    /\ At(i, "get_status", "gs_lock")
    /\ granted(guards, "manual_lock", i)
    /\ Return(i, <<get_status(Store)>>, grant(guards, "manual_lock"))
    /\ UNCHANGED <<cached_nodes, robot_url, now, current_state, last_state_update,
                   manual_lock, queue, active_route, receivers, next_id, emitted,
                   last, pre>>

\* POST /drive/lock, lines 315-379
StartAcquireLock(u) ==
    /\ IF is_admin(u.role)
       THEN Arrive(Task("acquire_lock", "al_lock", u, 0, {}), "manual_lock", "write")
       ELSE Arrive(Task("acquire_lock", "al_active", u, 0, {}), "active_route", "read")
    /\ UNCHANGED <<cached_nodes, robot_url, now, current_state, last_state_update,
                   manual_lock, queue, active_route, receivers, next_id, emitted,
                   last, pre>>

\* line 326: the guard is a temporary of the condition
AlActive(i) ==
    /\ At(i, "acquire_lock", "al_active")
    /\ granted(guards, "active_route", i)
    /\ LET g == drop(grant(guards, "active_route"), "active_route", i, "al_active")
       IN  IF acquire_refused_by_route(Store, tasks[i].arg)
           THEN Return(i, <<"error">>, g)
           ELSE Move(i, "al_lock", request(g, "manual_lock", i, "write", "al_lock"))
    /\ UNCHANGED <<cached_nodes, robot_url, now, current_state, last_state_update,
                   manual_lock, queue, active_route, receivers, next_id, emitted,
                   last, pre>>

\* lines 334-359; an admin asks for active_route under the guard of the lock
AlLock(i) ==
    /\ At(i, "acquire_lock", "al_lock")
    /\ granted(guards, "manual_lock", i)
    /\ LET u == tasks[i].arg
           g == grant(guards, "manual_lock")
       IN  IF acquire_held_by_other(Store, u, now) /\ ~is_admin(u.role)
           THEN /\ Return(i, <<"error">>, g)
                /\ UNCHANGED manual_lock
           ELSE /\ manual_lock' = Some(acquire_new_lock(u, now))
                /\ IF is_admin(u.role)
                   THEN Move(i, "al_message",
                             request(g, "active_route", i, "read", "al_message"))
                   ELSE Return(i, <<"success">>, g)
    /\ UNCHANGED <<cached_nodes, robot_url, now, current_state, last_state_update,
                   queue, active_route, receivers, next_id, emitted, last, pre>>

\* line 361
AlMessage(i) ==
    /\ At(i, "acquire_lock", "al_message")
    /\ granted(guards, "active_route", i)
    /\ Return(i, <<"success">>, grant(guards, "active_route"))
    /\ UNCHANGED <<cached_nodes, robot_url, now, current_state, last_state_update,
                   manual_lock, queue, active_route, receivers, next_id, emitted,
                   last, pre>>

\* POST /routes/select, lines 266-312: lock lives to the end of the handler
StartSelectRoute(u, p) ==
    /\ next_id <= MaxRoutes
    /\ Arrive(Task("select_route", "sr_lock", <<u.name, p>>, next_id, {}),
              "manual_lock", "read")
    /\ next_id' = next_id + 1
    /\ UNCHANGED <<cached_nodes, robot_url, now, current_state, last_state_update,
                   manual_lock, queue, active_route, receivers, emitted, last, pre>>

\* lines 279-288
SrLock(i) ==
    /\ At(i, "select_route", "sr_lock")
    /\ granted(guards, "manual_lock", i)
    /\ LET g == grant(guards, "manual_lock")
       IN  IF select_locked(Store, now)
           THEN Return(i, <<"error">>, g)
           ELSE Move(i, "sr_push", request(g, "queue", i, "write", "sr_push"))
    /\ UNCHANGED <<cached_nodes, robot_url, now, current_state, last_state_update,
                   manual_lock, queue, active_route, receivers, next_id, emitted,
                   last, pre>>

\* lines 300-306: the route is queued, then process_queue asks for the lock
SrPush(i) ==
    /\ At(i, "select_route", "sr_push")
    /\ granted(guards, "queue", i)
    /\ LET p == tasks[i].arg[2]
           route == QueuedRoute(tasks[i].route, p[1], p[2], now, tasks[i].arg[1])
           g == drop(grant(guards, "queue"), "queue", i, "sr_push")
       IN  /\ queue' = push_back(Store, route).queue
           /\ Move(i, "pq_lock", request(g, "manual_lock", i, "read", "pq_lock"))
    /\ UNCHANGED <<cached_nodes, robot_url, now, current_state, last_state_update,
                   manual_lock, active_route, receivers, next_id, emitted, last, pre>>

\* POST /table/state, lines 32-35
StartUpdateRobotState(mode) ==
    /\ Arrive(Task("update_robot_state", "us_state", mode, 0, {}),
              "current_state", "write")
    /\ UNCHANGED <<cached_nodes, robot_url, now, current_state, last_state_update,
                   manual_lock, queue, active_route, receivers, next_id, emitted,
                   last, pre>>

UsStateGuarded(i) ==
    /\ At(i, "update_robot_state", "us_state")
    /\ granted(guards, "current_state", i)
    /\ current_state' = Some(RobotState(tasks[i].arg))
    /\ Move(i, "us_active",
            request(drop(grant(guards, "current_state"), "current_state", i, "us_state"),
                    "active_route", i, "write", "us_active"))
    /\ UNCHANGED <<cached_nodes, robot_url, now, last_state_update, manual_lock, queue,
                   active_route, receivers, next_id, emitted, last, pre>>

\* lines 38-49
UsActiveGuarded(i) ==
    /\ At(i, "update_robot_state", "us_active")
    /\ granted(guards, "active_route", i)
    /\ active_route' = state_posted(Store, tasks[i].arg).active_route
    /\ Move(i, "pq_lock",
            request(drop(grant(guards, "active_route"), "active_route", i, "us_active"),
                    "manual_lock", i, "read", "pq_lock"))
    /\ UNCHANGED <<cached_nodes, robot_url, now, current_state, last_state_update,
                   manual_lock, queue, receivers, next_id, emitted, last, pre>>

\* process_queue, lines 14-21: the guard lives to the end of the block
PqLockGuarded(i) ==
    /\ InQueueProcessing(i, "pq_lock")
    /\ granted(guards, "manual_lock", i)
    /\ LET g == drop(grant(guards, "manual_lock"), "manual_lock", i, "pq_lock")
       IN  IF pq_lock_blocks(Store, now)
           THEN Return(i, <<>>, g)
           ELSE Move(i, "pq_conn", request(g, "last_state_update", i, "read", "pq_conn"))
    /\ UNCHANGED <<cached_nodes, robot_url, now, current_state, last_state_update,
                   manual_lock, queue, active_route, receivers, next_id, emitted,
                   last, pre>>

\* lines 24-26, is_robot_connected
PqConnGuarded(i) ==
    /\ InQueueProcessing(i, "pq_conn")
    /\ granted(guards, "last_state_update", i)
    /\ LET g == drop(grant(guards, "last_state_update"), "last_state_update", i, "pq_conn")
       IN  IF ~is_robot_connected(Store, now)
           THEN Return(i, <<>>, g)
           ELSE Move(i, "pq_idle", request(g, "current_state", i, "read", "pq_idle"))
    /\ UNCHANGED <<cached_nodes, robot_url, now, current_state, last_state_update,
                   manual_lock, queue, active_route, receivers, next_id, emitted,
                   last, pre>>

\* lines 29-39
PqIdleGuarded(i) ==
    /\ InQueueProcessing(i, "pq_idle")
    /\ granted(guards, "current_state", i)
    /\ LET g == drop(grant(guards, "current_state"), "current_state", i, "pq_idle")
       IN  IF ~pq_is_idle(Store)
           THEN Return(i, <<>>, g)
           ELSE Move(i, "pq_active", request(g, "active_route", i, "write", "pq_active"))
    /\ UNCHANGED <<cached_nodes, robot_url, now, current_state, last_state_update,
                   manual_lock, queue, active_route, receivers, next_id, emitted,
                   last, pre>>

\* lines 42-45: active_route_guard lives to the end of process_queue
PqActiveGuarded(i) ==
    /\ InQueueProcessing(i, "pq_active")
    /\ granted(guards, "active_route", i)
    /\ LET g == grant(guards, "active_route")
       IN  IF IsSome(active_route)
           THEN Return(i, <<>>, g)
           ELSE Move(i, "pq_queue", request(g, "queue", i, "write", "pq_queue"))
    /\ UNCHANGED <<cached_nodes, robot_url, now, current_state, last_state_update,
                   manual_lock, queue, active_route, receivers, next_id, emitted,
                   last, pre>>

\* lines 48-80
PqQueueGuarded(i) ==
    /\ InQueueProcessing(i, "pq_queue")
    /\ granted(guards, "queue", i)
    /\ Return(i, <<>>, grant(guards, "queue"))
    /\ IF queue = <<>>
       THEN UNCHANGED <<queue, active_route, emitted>>
       ELSE LET next_route == Head(queue)
                cmd == Navigate(next_route.start, next_route.destination)
            IN  /\ emitted' = Append(emitted, Emit(cmd, receivers, i, next_route.id))
                /\ IF SendOk(receivers)
                   THEN /\ active_route' = Some(next_route)
                        /\ queue' = Tail(queue)
                   ELSE UNCHANGED <<queue, active_route>>
    /\ UNCHANGED <<cached_nodes, robot_url, now, current_state, last_state_update,
                   manual_lock, receivers, next_id, last, pre>>

\* POST /table/register, lines 89-120
StartRegisterRobot(peer, port) ==
    /\ Arrive(Task("register_robot", "rr_url", Url(register_ip(None, None, peer), port),
                   0, {}),
              "robot_url", "write")
    /\ UNCHANGED <<cached_nodes, robot_url, now, current_state, last_state_update,
                   manual_lock, queue, active_route, receivers, next_id, emitted,
                   last, pre>>

\* lines 113-119
RrUrl(i) ==
    /\ At(i, "register_robot", "rr_url")
    /\ granted(guards, "robot_url", i)
    /\ robot_url' = IF robot_url # Some(tasks[i].arg) THEN Some(tasks[i].arg)
                    ELSE robot_url
    /\ Return(i, <<200>>, grant(guards, "robot_url"))
    /\ UNCHANGED <<cached_nodes, now, current_state, last_state_update, manual_lock,
                   queue, active_route, receivers, next_id, emitted, last, pre>>

\* GET /robot/check, lines 410-435: robot_url lives to the end of the handler
StartCheckRobotConnection ==
    /\ Arrive(Task("check_robot_connection", "cr_url", <<>>, 0, {}), "robot_url", "read")
    /\ UNCHANGED <<cached_nodes, robot_url, now, current_state, last_state_update,
                   manual_lock, queue, active_route, receivers, next_id, emitted,
                   last, pre>>

\* lines 411-414: with a URL the handler sends GET {url}/health and waits
CrUrl(i) ==
    /\ At(i, "check_robot_connection", "cr_url")
    /\ granted(guards, "robot_url", i)
    /\ LET g == grant(guards, "robot_url")
       IN  IF IsSome(robot_url)
           THEN Move(i, "cr_http", g)
           ELSE Return(i, <<"error">>, g)
    /\ UNCHANGED <<cached_nodes, robot_url, now, current_state, last_state_update,
                   manual_lock, queue, active_route, receivers, next_id, emitted,
                   last, pre>>

\* lines 414-428: the robot answers, or the request fails
CrHttp(i, ok) ==
    /\ At(i, "check_robot_connection", "cr_http")
    /\ Return(i, <<IF ok THEN "success" ELSE "error">>, guards)
    /\ UNCHANGED <<cached_nodes, robot_url, now, current_state, last_state_update,
                   manual_lock, queue, active_route, receivers, next_id, emitted,
                   last, pre>>

\* the node list a robot answers GET {url}/nodes with
RobotNodes == <<"A", "B">>

\* GET /nodes, lines 211-264.  Lines 213-220: the key-value cache is asked
\* before any slot; on a hit the handler returns.  A result names where the
\* nodes came from
StartGetNodes(hit) ==
    /\ IF hit
       THEN /\ Len(tasks) < MaxLockTasks
            /\ Running < MaxRunning
            /\ tasks' = Append(tasks, [Task("get_nodes", "done", <<>>, 0, {})
                                       EXCEPT !.result = <<200, "redis">>])
            /\ UNCHANGED guards
       ELSE Arrive(Task("get_nodes", "gn_cache", <<>>, 0, {}), "cached_nodes", "read")
    /\ UNCHANGED <<cached_nodes, robot_url, now, current_state, last_state_update,
                   manual_lock, queue, active_route, receivers, next_id, emitted,
                   last, pre>>

\* line 223: the guard is a temporary of the if let, it lives to its end
GnCache(i) ==
    /\ At(i, "get_nodes", "gn_cache")
    /\ granted(guards, "cached_nodes", i)
    /\ LET g == grant(guards, "cached_nodes")
       IN  IF IsSome(cached_nodes)
           THEN Move(i, "gn_cache_kv", g)
           ELSE Move(i, "gn_url",
                     request(drop(g, "cached_nodes", i, "gn_cache"),
                             "robot_url", i, "read", "gn_url"))
    /\ UNCHANGED <<cached_nodes, robot_url, now, current_state, last_state_update,
                   manual_lock, queue, active_route, receivers, next_id, emitted,
                   last, pre>>

\* lines 225-232: the key-value cache has taken the nodes, or failed
GnCacheKv(i) ==
    /\ At(i, "get_nodes", "gn_cache_kv")
    /\ Return(i, <<200, "memory">>, guards)
    /\ UNCHANGED <<cached_nodes, robot_url, now, current_state, last_state_update,
                   manual_lock, queue, active_route, receivers, next_id, emitted,
                   last, pre>>

\* lines 236-238: with a URL the handler sends GET {url}/nodes and waits
GnUrl(i) ==
    /\ At(i, "get_nodes", "gn_url")
    /\ granted(guards, "robot_url", i)
    /\ LET g == grant(guards, "robot_url")
       IN  IF IsSome(robot_url)
           THEN Move(i, "gn_http", g)
           ELSE Return(i, <<503>>, g)
    /\ UNCHANGED <<cached_nodes, robot_url, now, current_state, last_state_update,
                   manual_lock, queue, active_route, receivers, next_id, emitted,
                   last, pre>>

\* lines 238-256: the robot answers with its nodes, or the request fails
GnHttp(i, ok) ==
    /\ At(i, "get_nodes", "gn_http")
    /\ IF ok
       THEN Move(i, "gn_store", request(guards, "cached_nodes", i, "write", "gn_store"))
       ELSE Return(i, <<503>>, guards)
    /\ UNCHANGED <<cached_nodes, robot_url, now, current_state, last_state_update,
                   manual_lock, queue, active_route, receivers, next_id, emitted,
                   last, pre>>

\* lines 244-246: the nodes are stored, then sent to the key-value cache
GnStore(i) ==
    /\ At(i, "get_nodes", "gn_store")
    /\ granted(guards, "cached_nodes", i)
    /\ cached_nodes' = Some(RobotNodes)
    /\ Move(i, "gn_store_kv", grant(guards, "cached_nodes"))
    /\ UNCHANGED <<robot_url, now, current_state, last_state_update, manual_lock,
                   queue, active_route, receivers, next_id, emitted, last, pre>>

\* lines 246-248
GnStoreKv(i) ==
    /\ At(i, "get_nodes", "gn_store_kv")
    /\ Return(i, <<200, "robot">>, guards)
    /\ UNCHANGED <<cached_nodes, robot_url, now, current_state, last_state_update,
                   manual_lock, queue, active_route, receivers, next_id, emitted,
                   last, pre>>

\* the points at which a handler waits for an external system
IoPoints == {"cr_http", "gn_http", "gn_cache_kv", "gn_store_kv"}

LockArrivals ==
    \/ StartGetStatus
    \/ \E u \in LockCallers : StartAcquireLock(u)
    \/ \E u \in LockCallers : StartSelectRoute(u, <<"A", "B">>)
    \/ \E mode \in DriveModes : StartUpdateRobotState(mode)
    \/ \E port \in Ports : StartRegisterRobot("10.0.0.1", port)
    \/ StartCheckRobotConnection
    \/ \E hit \in BOOLEAN : StartGetNodes(hit)

LockSteps ==
    \E i \in 1..MaxLockTasks :
        \/ GsState(i) \/ GsLock(i)
        \/ AlActive(i) \/ AlLock(i) \/ AlMessage(i)
        \/ SrLock(i) \/ SrPush(i)
        \/ UsStateGuarded(i) \/ UsActiveGuarded(i)
        \/ PqLockGuarded(i) \/ PqConnGuarded(i) \/ PqIdleGuarded(i)
        \/ PqActiveGuarded(i) \/ PqQueueGuarded(i)
        \/ RrUrl(i)
        \/ CrUrl(i) \/ \E ok \in BOOLEAN : CrHttp(i, ok)
        \/ GnCache(i) \/ GnCacheKv(i) \/ GnUrl(i)
        \/ \E ok \in BOOLEAN : GnHttp(i, ok)
        \/ GnStore(i) \/ GnStoreKv(i)

Locking == LockArrivals \/ LockSteps

\* the stores the requests arrive at
InitLocks ==
    /\ now = 0
    /\ \E tel \in {<<None, None>>, <<Some(RobotState("IDLE")), Some(0)>>} :
           current_state = tel[1] /\ last_state_update = tel[2]
    /\ manual_lock \in {None, Some(LockInfo(2, Oli.name, LOCK_TTL_SECS))}
    /\ queue = <<>>
    /\ active_route \in {None} \cup
           (IF IsSome(manual_lock) THEN {} ELSE {Some(ParallelRoutes[3])})
    /\ receivers = MaxReceivers
    /\ next_id = 1
    /\ robot_url = None
    /\ cached_nodes = None
    /\ guards = NoGuards
    /\ tasks = NoTasks
    /\ emitted = <<>>
    /\ last = NoOperation
    /\ pre = NewStore

SpecLocks == InitLocks /\ [][Locking]_vars

(***************************************************************************)
(* C35.  The order of the slot locks.                                      *)
(***************************************************************************)
\* the order the slots are to be taken in; telemetry is the state and its stamp
SlotOrder ==
    <<{"manual_lock"}, {"current_state", "last_state_update"}, {"active_route"},
      {"queue"}, {"robot_url"}, {"cached_nodes"}>>

Rank(slot) == CHOOSE k \in DOMAIN SlotOrder : slot \in SlotOrder[k]

\* the slots task i holds a guard of
HeldBy(i) == {s \in Slots : \E h \in guards[s].held : h.task = i}

\* C35: a handler that asks for a slot while it holds guards holds none of
\* a slot later in the order lock, telemetry, activeRoute, queue, robotUrl,
\* cachedNodes
C35_LockOrder ==
    \A s \in Slots : \A k \in 1..Len(guards[s].waiting) :
        \A h \in HeldBy(guards[s].waiting[k].task) : Rank(h) <= Rank(s)

(***************************************************************************)
(* C36.  Freedom from deadlock.                                            *)
(***************************************************************************)
\* C36: while a handler is running, some handler can take a step: no set
\* of tasks waits forever on each other's slot locks
C36_DeadlockFree == Running > 0 => ENABLED LockSteps

(***************************************************************************)
(* C37.  No guard of a slot over a call to an external system.             *)
(***************************************************************************)
\* the handler waits for the robot's HTTP answer or for the key-value cache
AwaitsIo(i) == tasks[i].pc \in IoPoints

\* C37: a handler that waits for an external system holds no guard of any
\* slot, so that it keeps no registration waiting
C37_NoGuardAcrossIo ==
    \A i \in 1..Len(tasks) : AwaitsIo(i) => HeldBy(i) = {}

(***************************************************************************)
(* C38.  A non-Admin's lock and an active route.                           *)
(***************************************************************************)
\* an effective lock whose holder is not an Admin
NonAdminLock ==
    /\ Effective(manual_lock, now)
    /\ \E u \in Users : u.sub = HolderSub(manual_lock) /\ ~is_admin(u.role)

\* C38: an effective lock of a non-Admin and a Some activeRoute never
\* coexist, whichever way the requests interleave
C38_NoLockWithRoute == ~(NonAdminLock /\ IsSome(active_route))

(***************************************************************************)
(* C39.  The routes are conserved.                                         *)
(***************************************************************************)
\* the ids of the routes of a store
IdsOf(s) ==
    {s.queue[k].id : k \in 1..Len(s.queue)} \cup
    (IF IsSome(s.active_route) THEN {Unwrap(s.active_route).id} ELSE {})

\* no id is stored twice
IdsDistinct ==
    Len(queue) + (IF IsSome(active_route) THEN 1 ELSE 0) = Cardinality(StoredIds)

Occurrences(q, r) == Cardinality({k \in 1..Len(q) : q[k] = r})

IsPermutation(p, q) ==
    /\ Len(p) = Len(q)
    /\ \A k \in 1..Len(q) : Occurrences(p, q[k]) = Occurrences(q, q[k])

\* the operation was entitled to remove the route id
MayRemove(id) ==
    \/ AdminDelete /\ last.status = 204 /\ last.arg[1] = id
    \/ IdlePostCompletes /\ Unwrap(pre.active_route).id = id

\* C39: the ids of queue and activeRoute are pairwise distinct; a route
\* leaves them only by an Admin's delete or by completion, whatever else
\* the operation did (dispatch, failed dispatch, preemption); optimize
\* leaves the queue a permutation of itself and activeRoute as it was
C39_RoutesConserved ==
    /\ IdsDistinct
    /\ ~Idle => \A id \in IdsOf(pre) \ StoredIds : MayRemove(id)
    /\ AdminOptimize => IsPermutation(queue, pre.queue)
                        /\ active_route = pre.active_route

\* an Admin's Navigate preempts the active route while a route waits and no
\* robot listens: three routes are stored afterwards
C39_Witness ==
    /\ AdminNavigateFrame
    /\ IsSome(pre.active_route)
    /\ pre.queue # <<>>
    /\ SendFailed
    /\ StoredIds = IdsOf(pre) \cup {Unwrap(active_route).id}
    /\ Cardinality(StoredIds) = Len(pre.queue) + 2

(***************************************************************************)
(* POST /routes/optimize, pass by pass.  The handler holds the write guard *)
(* of the queue from line 117 to its end; solve_atsp_path runs under it.   *)
(* A step of the improvement loop is one execution of the body of          *)
(* `while improved`, the two for loops over the whole path.  The local     *)
(* `path` of the solver is the task's result until the handler returns.    *)
(***************************************************************************)
MaxOptimizeQueue == 4

\* start and destination of the routes of the short queues
OptimizePairs == {<<"A", "A">>, <<"A", "B">>, <<"B", "A">>, <<"B", "B">>}

\* eight routes between six nodes, in the order they were added
EightRoutes ==
    << <<"B", "A">>, <<"F", "B">>, <<"B", "F">>, <<"C", "F">>, <<"B", "C">>,
       <<"C", "B">>, <<"F", "C">>, <<"D", "E">> >>

\* the queue of the routes ps, added one after the other before now
Queued(ps) ==
    [k \in 1..Len(ps) |->
        QueuedRoute(k, ps[k][1], ps[k][2], k - Len(ps), Ada.name)]

OptimizeQueues ==
    {Queued(ps) : ps \in [1..MaxOptimizeQueue -> OptimizePairs]}
    \cup {Queued(EightRoutes)}

\* lines 103-117: an Admin's request asks for queue.write()
StartOptimizeRoutes(u) ==
    /\ is_admin(u.role)
    /\ Arrive(Task("optimize_routes", "or_queue", u, 0, {}), "queue", "write")
    /\ UNCHANGED <<cached_nodes, robot_url, now, current_state, last_state_update,
                   manual_lock, queue, active_route, receivers, next_id, emitted,
                   last, pre>>

\* lines 117-119, solve_atsp_path line 80 and two_opt_atsp_path lines 44-49
OrQueue(i) ==
    /\ At(i, "optimize_routes", "or_queue")
    /\ granted(guards, "queue", i)
    /\ guards' = grant(guards, "queue")
    /\ \E greedy \in {greedy_atsp_path(queue)} :
           tasks' = [tasks EXCEPT
                       ![i].pc = IF Len(greedy) < 4 THEN "or_store" ELSE "two_opt",
                       ![i].result = greedy]
    /\ UNCHANGED <<cached_nodes, robot_url, now, current_state, last_state_update,
                   manual_lock, queue, active_route, receivers, next_id, emitted,
                   last, pre>>

\* two_opt_atsp_path, lines 51-71: one execution of the body of the loop
TwoOptPass(i) ==
    /\ At(i, "optimize_routes", "two_opt")
    /\ \E w \in {two_opt_pass([path |-> tasks[i].result, improved |-> FALSE], 1, 3)} :
           tasks' = [tasks EXCEPT
                       ![i].pc = IF w.improved THEN "two_opt" ELSE "or_store",
                       ![i].result = w.path]
    /\ UNCHANGED <<cached_nodes, guards, robot_url, now, current_state,
                   last_state_update, manual_lock, queue, active_route, receivers,
                   next_id, emitted, last, pre>>

\* lines 127-134: the queue is replaced and the guard dropped
OrStore(i) ==
    /\ At(i, "optimize_routes", "or_store")
    /\ queue' = tasks[i].result
    /\ Return(i, tasks[i].result, guards)
    /\ UNCHANGED <<cached_nodes, robot_url, now, current_state, last_state_update,
                   manual_lock, active_route, receivers, next_id, emitted, last, pre>>

OptimizeSteps ==
    \E i \in 1..MaxLockTasks : OrQueue(i) \/ TwoOptPass(i) \/ OrStore(i)

Optimizing ==
    \/ \E u \in Users : StartOptimizeRoutes(u)
    \/ OptimizeSteps

InitOptimize ==
    /\ now = 0
    /\ current_state = NewStore.current_state
    /\ last_state_update = NewStore.last_state_update
    /\ manual_lock = NewStore.manual_lock
    /\ queue \in OptimizeQueues
    /\ active_route = NewStore.active_route
    /\ receivers = 0
    /\ next_id = 1
    /\ robot_url = None
    /\ cached_nodes = None
    /\ guards = NoGuards
    /\ tasks = NoTasks
    /\ emitted = <<>>
    /\ last = NoOperation
    /\ pre = NewStore

\* a task of the runtime that can run does run
SpecOptimize == InitOptimize /\ [][Optimizing]_vars /\ WF_vars(OptimizeSteps)

(***************************************************************************)
(* C40.  The optimizer terminates.                                         *)
(***************************************************************************)
\* C40: every POST /routes/optimize that has started returns: the loop of
\* two_opt_atsp_path stops after finitely many passes and the write guard
\* of the queue is dropped
C40_OptimizerTerminates ==
    \A i \in 1..MaxLockTasks :
        (Len(tasks) >= i) ~> (Len(tasks) >= i /\ tasks[i].pc = "done")

====
